---- MODULE Spec2Model ----
(***************************************************************************)
(* Model of parts of desync: the selfSeed used during extraction           *)
(* (selfseed.go), the LocalStore / GCSStore chunk stores (local.go,        *)
(* gcs.go), the S3 credentials lookup (config.go), the catar encoder       *)
(* (tar_windows.go), the store with a cache (store_utils.go), device nodes *)
(* in a tar file (tarfs.go) and the prune command (cmd/desync/prune.go).   *)
(***************************************************************************)
EXTENDS Integers, Sequences, FiniteSets, TLC

(***************************************************************************)
(* Bounds                                                                  *)
(***************************************************************************)
\* longest index (number of IndexChunks) explored
MaxIndexLen == 3
\* number of distinct chunk IDs that can occur in the index
NumIDs == 2
\* longest argument slice handed to LongestMatchWith
MaxChunks == 2

\* number of concurrent LocalStore.StoreChunk calls for the same chunk
NumCalls == 2

\* number of distinct chunk IDs that can name files in the pruned store
NumPruneIDs == 2
\* largest number of files in the store before Prune
MaxFiles == 3
\* largest number of files in a store that is pruned twice, or verified
MaxFilesAgain == 2

\* largest number n of workers of LocalStore.Verify
NumWorkers == 2

\* largest number of nodes (directories, files, others) below and including src
MaxNodes == 4

\* largest number of index files given to the prune command
MaxArgs == 2

\* largest major and minor number of a device node
MaxDevNum == 3

ChunkIDs == 1..NumIDs

VARIABLES
    \* ---- selfSeed (part_002) ----
    index,      \* s.index.Chunks, as the sequence of chunk IDs
    pos,        \* s.pos     map[ChunkID][]int
    written,    \* s.written
    cache,      \* s.cache   map[int]int
    added,      \* history: the segments passed to add so far, in call order
    appended,   \* history: index positions in the order add appended them to pos
    lm,         \* the LongestMatchWith call in progress (its locals and position;
                \* history: w0, the value of s.written when it was called)
    \* ---- LocalStore.StoreChunk (gcs.go 343-416) ----
    opt,         \* s.opt, the StoreOptions of the store
    dest,        \* the file at path p = nameFromID(chunk.ID())
    dest0,       \* history: the file at p before the first call
    tmp,         \* per call: the temp file the call created in directory d
    pc,          \* per call: the statement it is at
    retriesLeft, \* per call: the local retriesLeft
    ret,         \* per call: the error StoreChunk returned
    renames,     \* history, per call: number of os.Rename calls made
    \* ---- LocalStore.Prune / GCSStore.Prune (gcs.go 496-540, 189-224) ----
    kind,        \* which store is pruned: "local" (LocalStore) or "gcs" (GCSStore)
    files,       \* the files under s.Base, or the objects of the bucket
    ids,         \* the argument ids of Prune: the chunks to keep
    cancelled,   \* ctx.Done() is closed
    prune,       \* the Prune call: its position in the walk and its result
    files0,      \* history: the files when Prune (Verify) was called
    \* ---- a second Prune call ----
    runs,        \* number of Prune calls made on the store
    files1,      \* history: the files when the latest Prune call was made
    \* ---- LocalStore.Verify (gcs.go 421-492) ----
    corrupt,     \* the files whose bytes do not have the digest of their name
    verify,      \* the Verify call: its arguments, its place in the walk, its result
    workers,     \* per worker goroutine: its position and the id it received
    log,         \* what was written to w
    checked,     \* history, per chunk ID: number of GetChunk calls by workers
    \* ---- GetChunk (gcs.go 100-124, 305-315) ----
    got,         \* the GetChunk call: its inputs and what it returned
    \* ---- Config.GetS3CredentialsFor (cmd/desync/prune.go 129-154) ----
    env,         \* the environment variables S3_ACCESS_KEY, S3_SECRET_KEY, S3_REGION
    config,      \* c.S3Credentials[key.String()], the S3Creds configured for u
    creds,       \* the GetS3CredentialsFor call and what it returned
    \* ---- tar (tar_windows.go 65-226) ----
    tree,        \* the directory tree below src
    tar,         \* the tar call: its stack of recursive calls and its result
    stream,      \* the elements encoded so far
    goodbye,     \* per directory: the FormatGoodbye encoded for it
    \* ---- MultiStoreWithCache (store_utils.go 20-41) ----
    msc,         \* the MultiStoreWithCache call: its arguments and what it returned
    \* ---- TarWriteFS.CreateDevice (tarfs.go 74-91) ----
    device,      \* the CreateDevice call: the node n and the header written
    \* ---- runPrune (cmd/desync/prune.go 42-93) ----
    run          \* the runPrune call: its options, its position and its result

seedVars == <<index, pos, written, cache, added, appended, lm>>

storeVars == <<opt, dest, dest0, tmp, pc, retriesLeft, ret, renames>>

pruneVars == <<kind, files, ids, cancelled, prune, files0>>

againVars == <<runs, files1>>

verifyVars == <<corrupt, verify, workers, log, checked>>

getVars == <<got>>

credVars == <<env, config, creds>>

tarVars == <<tree, tar, stream, goodbye>>

moreVars == <<msc, device, run>>

\* the variables that selfSeed, StoreChunk and a single Prune leave alone
otherVars == <<againVars, verifyVars, getVars, credVars, tarVars, moreVars>>

vars == <<seedVars, storeVars, pruneVars, otherVars>>

(***************************************************************************)
(* selfSeed                                                                *)
(***************************************************************************)

\* An IndexSegment as add reads it: the two fields first and last.
IndexSegments(n) == { s \in [first : 0..(n-1), last : 0..(n-1)] : s.first <= s.last }

\* the empty Go map
EmptyMap == [k \in {} |-> 0]

\* m[k] = v for a Go map m
MapPut(m, k, v) == [x \in (DOMAIN m) \cup {k} |-> IF x = k THEN v ELSE m[x]]

\* delete(m, k)
MapDelete_Keep(m, k) == m
MapDelete(m, k) == [x \in (DOMAIN m) \ {k} |-> m[x]]

\* s.cache[segment.first] = segment.last + 1
cachePut_HalfOpen(c, segment) == MapPut(c, segment.first, segment.last)
cachePut(c, segment) == MapPut(c, segment.first, segment.last + 1)

\* pos[id] of a Go map read: the nil slice when the key is absent
posOf(p, id) == IF id \in DOMAIN p THEN p[id] ELSE <<>>

\* for i := s.written; i < next; i++ { s.pos[chunk.ID] = append(s.pos[chunk.ID], i) }
\* r = [pos, appended]
RECURSIVE recordRange(_, _, _, _)
RECURSIVE recordRange_Prepend(_, _, _, _)
recordRange_Prepend(idx, r, i, next) ==
    IF i >= next THEN r
    ELSE LET id == idx[i + 1]
         IN  recordRange_Prepend(idx,
                 [pos      |-> MapPut(r.pos, id, <<i>> \o posOf(r.pos, id)),
                  appended |-> Append(r.appended, i)],
                 i + 1, next)
recordRange(idx, r, i, next) ==
    IF i >= next THEN r
    ELSE LET id == idx[i + 1]
         IN  recordRange(idx,
                 [pos      |-> MapPut(r.pos, id, Append(posOf(r.pos, id), i)),
                  appended |-> Append(r.appended, i)],
                 i + 1, next)

\* One iteration of the for loop of add, taken when s.cache[s.written] exists.
\* st = [cache, written, pos, appended]
advanceStep_SkipRecord(idx, st) ==
    [cache    |-> MapDelete(st.cache, st.written),
     written  |-> st.cache[st.written],
     pos      |-> st.pos,
     appended |-> st.appended]
advanceStep(idx, st) ==
    LET next == st.cache[st.written]
        r    == recordRange(idx, [pos |-> st.pos, appended |-> st.appended],
                            st.written, next)
    IN  [cache    |-> MapDelete(st.cache, st.written),
         written  |-> next,
         pos      |-> r.pos,
         appended |-> r.appended]

\* The for loop of add: advance written through the cache until
\* s.cache[s.written] is absent.
RECURSIVE advance(_, _)
advance_Once(idx, st) ==
    IF st.written \notin DOMAIN st.cache THEN st
    ELSE advanceStep(idx, st)
advance(idx, st) ==
    IF st.written \notin DOMAIN st.cache THEN st
    ELSE advance(idx, advanceStep(idx, st))

\* Two segments share no index position.
Disjoint(s, t) == s.last < t.first \/ t.last < s.first

\* A worker calls s.add(segment) with a segment it has written. Callers pass
\* each written segment once, so the segments are pairwise disjoint.
addCall(segment) ==
    /\ segment \in IndexSegments(Len(index))
    /\ \A k \in 1..Len(added) : Disjoint(segment, added[k])
    /\ added' = Append(added, segment)

\* func (s *selfSeed) add(segment IndexSegment); the whole body runs under s.mu.Lock.
add(segment) ==
    /\ addCall(segment)
    /\ LET st == advance(index, [cache    |-> cachePut(cache, segment),
                                 written  |-> written,
                                 pos      |-> pos,
                                 appended |-> appended])
       IN  /\ cache' = st.cache
           /\ written' = st.written
           /\ pos' = st.pos
           /\ appended' = st.appended
    /\ UNCHANGED <<index, lm>>
    /\ UNCHANGED <<storeVars, pruneVars, otherVars>>

\* maxMatchFrom(chunks, p), with w the value of s.written it reads under RLock;
\* the result is the slice s.index.Chunks[p:dp], returned here as its length dp-p
RECURSIVE matchLoop(_, _, _, _, _)
matchLoop(idx, chunks, w, sp, dp) ==
    IF dp >= w \/ sp >= Len(chunks) THEN dp
    ELSE IF chunks[sp + 1] # idx[dp + 1] THEN dp
    ELSE matchLoop(idx, chunks, w, sp + 1, dp + 1)

maxMatchFrom_Unbounded(idx, chunks, p, w) ==
    IF Len(chunks) = 0 THEN 0
    ELSE matchLoop(idx, chunks, Len(idx), 0, p) - p
maxMatchFrom(idx, chunks, p, w) ==
    IF Len(chunks) = 0 THEN 0
    ELSE matchLoop(idx, chunks, w, 0, p) - p

\* the LongestMatchWith call when none is running
LMIdle == [pc |-> "idle", chunks |-> <<>>, pos |-> <<>>, k |-> 0,
           max |-> 0, match |-> 0, w0 |-> 0]

\* the seed variables in the specifications that do not run the seed
SeedIdle ==
    /\ index = <<>>
    /\ pos = EmptyMap
    /\ written = 0
    /\ cache = EmptyMap
    /\ added = <<>>
    /\ appended = <<>>
    /\ lm = LMIdle

ChunkArgs == UNION { [1..n -> ChunkIDs] : n \in 0..MaxChunks }

\* LongestMatchWith, lines 71-79: the early returns and the read of s.pos under RLock.
\* One call is followed from any point of the run; a call changes no field of the
\* seed, so later calls start from the same states.
LongestMatchWithStart(chunks) ==
    /\ lm.pc = "idle"
    /\ IF Len(chunks) = 0 \/ Len(index) = 0
       THEN lm' = [LMIdle EXCEPT !.pc = "done", !.chunks = chunks, !.w0 = written]
       ELSE IF chunks[1] \notin DOMAIN pos
       THEN lm' = [LMIdle EXCEPT !.pc = "done", !.chunks = chunks, !.w0 = written]
       ELSE lm' = [LMIdle EXCEPT !.pc = "loop", !.chunks = chunks, !.w0 = written,
                                 !.pos = pos[chunks[1]], !.k = 1]
    /\ UNCHANGED <<index, pos, written, cache, added, appended>>
    /\ UNCHANGED <<storeVars, pruneVars, otherVars>>

\* LongestMatchWith, lines 86-92: one iteration of the range loop; maxMatchFrom
\* reads s.written under its own RLock
LongestMatchWithIter_KeepFirst ==
    /\ lm.pc = "loop"
    /\ lm.k <= Len(lm.pos)
    /\ LET p == lm.pos[lm.k]
           m == maxMatchFrom(index, lm.chunks, p, written)
       IN  lm' = IF lm.max = 0 /\ m > 0
                 THEN [lm EXCEPT !.k = @ + 1, !.max = m, !.match = p]
                 ELSE [lm EXCEPT !.k = @ + 1]
    /\ UNCHANGED <<index, pos, written, cache, added, appended>>
    /\ UNCHANGED <<storeVars, pruneVars, otherVars>>
LongestMatchWithIter ==
    /\ lm.pc = "loop"
    /\ lm.k <= Len(lm.pos)
    /\ LET p == lm.pos[lm.k]
           m == maxMatchFrom(index, lm.chunks, p, written)
       IN  lm' = IF m > lm.max
                 THEN [lm EXCEPT !.k = @ + 1, !.max = m, !.match = p]
                 ELSE [lm EXCEPT !.k = @ + 1]
    /\ UNCHANGED <<index, pos, written, cache, added, appended>>
    /\ UNCHANGED <<storeVars, pruneVars, otherVars>>

\* LongestMatchWith, line 93: return max and the segment over match
LongestMatchWithReturn ==
    /\ lm.pc = "loop"
    /\ lm.k > Len(lm.pos)
    /\ lm' = [lm EXCEPT !.pc = "done"]
    /\ UNCHANGED <<index, pos, written, cache, added, appended>>
    /\ UNCHANGED <<storeVars, pruneVars, otherVars>>

\* the Prune call that is not running
PruneIdle == [pc |-> "idle", last |-> -1, ret |-> "none"]

\* the prune variables in the specifications that do not run Prune
PruneIdleVars ==
    /\ kind = "local"
    /\ files = {}
    /\ ids = {}
    /\ cancelled = FALSE
    /\ prune = PruneIdle
    /\ files0 = {}

\* no further Prune call has been made
AgainIdle ==
    /\ runs = 0
    /\ files1 = {}

\* the worker goroutines of Verify
Workers == 1..NumWorkers

\* the Verify call that is not running, and a worker goroutine that was not started
VerifyIdle == [pc |-> "idle", n |-> 0, repair |-> FALSE, last |-> -1, ret |-> "none"]
NoWorker == [pc |-> "exit", id |-> 0]

\* the verify variables in the specifications that do not run Verify
VerifyIdleVars ==
    /\ corrupt = {}
    /\ verify = VerifyIdle
    /\ workers = [w \in Workers |-> NoWorker]
    /\ log = {}
    /\ checked = [id \in {} |-> 0]

\* no GetChunk call has been made
GetIdle == [called |-> FALSE, id |-> 0, readerOK |-> TRUE, readOK |-> TRUE,
            err |-> "none", data |-> <<>>]

\* the zero value of S3Creds, and an environment with none of the variables set
NoS3Creds == [AccessKey |-> "", SecretKey |-> "", AwsCredentialsFile |-> "",
              AwsProfile |-> "", AwsRegion |-> ""]
NoEnv == [S3_ACCESS_KEY |-> "", S3_SECRET_KEY |-> "", S3_REGION |-> ""]
NoCredentials == [type |-> "none", AccessKey |-> "", SecretKey |-> "",
                  File |-> "", Profile |-> ""]
CredsIdle == [pc |-> "idle", creds |-> NoCredentials, region |-> ""]

\* the tar call that is not running
TarIdle == [pc |-> "idle", dev |-> 0, node |-> 0, stack |-> <<>>, ret |-> "none"]

\* the variables of the parts that a specification does not run
GetIdleVars == got = GetIdle
CredsIdleVars == env = NoEnv /\ config = NoS3Creds /\ creds = CredsIdle
TarIdleVars == tree = <<>> /\ tar = TarIdle /\ stream = <<>> /\ goodbye = EmptyMap
\* no call of MultiStoreWithCache, CreateDevice or runPrune is made
MoreIdle ==
    /\ msc = [pc |-> "idle"]
    /\ device = [pc |-> "idle"]
    /\ run = [pc |-> "idle"]

OtherIdle ==
    /\ AgainIdle
    /\ VerifyIdleVars
    /\ GetIdleVars
    /\ CredsIdleVars
    /\ TarIdleVars
    /\ MoreIdle

(***************************************************************************)
(* LocalStore.StoreChunk                                                   *)
(***************************************************************************)

Calls == 1..NumCalls

\* retriesLeft := 10
MaxRetries == 10

\* the bytes b that StoreChunk writes for the chunk (chunk.Uncompressed() or
\* chunk.Compressed(), as the store keeps them)
ChunkData == <<1, 2>>

\* a file on disk: absent, or present with its bytes
NoFile == [exists |-> FALSE, data |-> <<>>]
File(b) == [exists |-> TRUE, data |-> b]

\* the store variables in the specifications that do not run StoreChunk
StoreIdle ==
    /\ opt = [SkipVerify |-> FALSE, Uncompressed |-> FALSE]
    /\ dest = NoFile
    /\ dest0 = NoFile
    /\ tmp = [c \in Calls |-> NoFile]
    /\ pc = [c \in Calls |-> "done"]
    /\ retriesLeft = [c \in Calls |-> 0]
    /\ ret = [c \in Calls |-> "none"]
    /\ renames = [c \in Calls |-> 0]

\* the store options are those of the pruned store, the other store variables rest
PruneStoreIdle ==
    /\ dest = NoFile
    /\ dest0 = NoFile
    /\ tmp = [c \in Calls |-> NoFile]
    /\ pc = [c \in Calls |-> "done"]
    /\ retriesLeft = [c \in Calls |-> 0]
    /\ ret = [c \in Calls |-> "none"]
    /\ renames = [c \in Calls |-> 0]

\* the digest of a byte string (Chunk.ID): distinct strings have distinct digests
RECURSIVE Sum(_)
Sum(b) == IF Len(b) = 0 THEN 1 ELSE 1 + b[1] + 3 * Sum(Tail(b))

\* chunk.ID() of the chunk being stored
ChunkSum == Sum(ChunkData)

\* NewChunkWithID(id, b, skipVerify): the chunk and the error
NewChunkWithID(id, b, skipVerify) ==
    IF skipVerify THEN [err |-> "nil", data |-> b]
    ELSE IF Sum(b) # id THEN [err |-> "ChunkInvalid", data |-> <<>>]
    ELSE [err |-> "nil", data |-> b]

\* LocalStore.GetChunk(id) reading file f; readOK = FALSE when ioutil.ReadFile
\* fails with an error other than not-exist (the error is dropped, b is empty)
GetChunk(o, id, f, readOK) ==
    IF ~f.exists THEN [err |-> "ChunkMissing", data |-> <<>>]
    ELSE NewChunkWithID(id, IF readOK THEN f.data ELSE <<>>, o.SkipVerify)

\* LocalStore.getChunkForceValidate(id)
getChunkForceValidate_NoForce(o, id, f, readOK) == GetChunk(o, id, f, readOK)
getChunkForceValidate(o, id, f, readOK) ==
    LET chunk == GetChunk(o, id, f, readOK)
    IN  IF chunk.err # "nil" THEN chunk
        ELSE IF o.SkipVerify /\ Sum(chunk.data) # id
        THEN [err |-> "ChunkInvalid", data |-> <<>>]
        ELSE chunk

\* os.IsExist(err) for the error of os.Stat(p): Stat reports nil for a file that
\* exists and ENOENT for one that does not; neither is an "already exists" error
IsExist(err) == err = "EEXIST"

\* os.Stat(p)
Stat(f) == IF f.exists THEN "nil" ELSE "ENOENT"

\* return from StoreChunk with error e
Return(c, e) ==
    /\ pc' = [pc EXCEPT ![c] = "done"]
    /\ ret' = [ret EXCEPT ![c] = e]

\* lines 407-411: if retriesLeft == 0 { return err }; sleep; then retry the rename
CheckRetries(c) ==
    IF retriesLeft[c] = 0
    THEN Return(c, "renameErr")
    ELSE /\ pc' = [pc EXCEPT ![c] = "retry"]
         /\ ret' = ret

\* lines 344-369: Stat, MkdirAll, create the temp file; created = FALSE when
\* Compressed(), MkdirAll or tempfile.NewSuffixAndMode fails
StoreChunkBegin(c, created) ==
    /\ pc[c] = "start"
    /\ IF IsExist(Stat(dest))
       THEN Return(c, "nil") /\ tmp' = tmp
       ELSE IF ~created
       THEN Return(c, "createErr") /\ tmp' = tmp
       ELSE /\ tmp' = [tmp EXCEPT ![c] = File(<<>>)]
            /\ pc' = [pc EXCEPT ![c] = "write"]
            /\ ret' = ret
    /\ UNCHANGED <<opt, dest, dest0, retriesLeft, renames>>
    /\ UNCHANGED <<seedVars, pruneVars, otherVars>>

\* lines 370-375: tmp.Write(b); a failed write leaves n < len(b) bytes in the
\* temp file, which is then closed and removed
StoreChunkWrite_KeepPartial(c, n) ==
    /\ pc[c] = "write"
    /\ tmp' = [tmp EXCEPT ![c] = File(SubSeq(ChunkData, 1, n))]
    /\ pc' = [pc EXCEPT ![c] = "rename"]
    /\ ret' = ret
    /\ UNCHANGED <<opt, dest, dest0, retriesLeft, renames>>
    /\ UNCHANGED <<seedVars, pruneVars, otherVars>>
StoreChunkWrite(c, n) ==
    /\ pc[c] = "write"
    /\ IF n = Len(ChunkData)
       THEN /\ tmp' = [tmp EXCEPT ![c] = File(ChunkData)]
            /\ pc' = [pc EXCEPT ![c] = "rename"]
            /\ ret' = ret
       ELSE /\ tmp' = [tmp EXCEPT ![c] = NoFile]
            /\ Return(c, "writeErr")
    /\ UNCHANGED <<opt, dest, dest0, retriesLeft, renames>>
    /\ UNCHANGED <<seedVars, pruneVars, otherVars>>

\* os.Rename(tmp.Name(), p): when it succeeds the temp file becomes the file at p
RenameOK(c) ==
    /\ dest' = tmp[c]
    /\ tmp' = [tmp EXCEPT ![c] = NoFile]
    /\ Return(c, "nil")

\* lines 379-381: the first rename, retriesLeft := 10
StoreChunkRename(c, ok) ==
    /\ pc[c] = "rename"
    /\ renames' = [renames EXCEPT ![c] = @ + 1]
    /\ retriesLeft' = [retriesLeft EXCEPT ![c] = MaxRetries]
    /\ IF ok
       THEN RenameOK(c)
       ELSE /\ pc' = [pc EXCEPT ![c] = "stat"]
            /\ UNCHANGED <<dest, tmp, ret>>
    /\ UNCHANGED <<opt, dest0>>
    /\ UNCHANGED <<seedVars, pruneVars, otherVars>>

\* line 382: os.Stat(p) after a failed rename
StoreChunkStat(c) ==
    /\ pc[c] = "stat"
    /\ IF Stat(dest) = "ENOENT"
       THEN CheckRetries(c)
       ELSE /\ pc' = [pc EXCEPT ![c] = "validate"]
            /\ ret' = ret
    /\ UNCHANGED <<opt, dest, dest0, tmp, retriesLeft, renames>>
    /\ UNCHANGED <<seedVars, pruneVars, otherVars>>

\* lines 386-405: validate the file at p and dispatch on the error
StoreChunkValidate(c, readOK) ==
    /\ pc[c] = "validate"
    /\ LET r == getChunkForceValidate(opt, ChunkSum, dest, readOK)
       IN  IF r.err = "ChunkInvalid"
           THEN pc' = [pc EXCEPT ![c] = "removeDest"] /\ ret' = ret
           ELSE IF r.err = "nil"
           THEN pc' = [pc EXCEPT ![c] = "removeTmp"] /\ ret' = ret
           ELSE Return(c, r.err)
    /\ UNCHANGED <<opt, dest, dest0, tmp, retriesLeft, renames>>
    /\ UNCHANGED <<seedVars, pruneVars, otherVars>>

\* lines 388-395: os.Remove(p) of the invalid chunk; ok = FALSE when the removal
\* of an existing file fails
StoreChunkRemoveInvalid_NoRetry(c, ok) ==
    /\ pc[c] = "removeDest"
    /\ dest' = IF dest.exists /\ ok THEN NoFile ELSE dest
    /\ Return(c, "renameErr")
    /\ UNCHANGED <<opt, dest0, tmp, retriesLeft, renames>>
    /\ UNCHANGED <<seedVars, pruneVars, otherVars>>
StoreChunkRemoveInvalid(c, ok) ==
    /\ pc[c] = "removeDest"
    /\ dest' = IF dest.exists /\ ok THEN NoFile ELSE dest
    /\ CheckRetries(c)
    /\ UNCHANGED <<opt, dest0, tmp, retriesLeft, renames>>
    /\ UNCHANGED <<seedVars, pruneVars, otherVars>>

\* lines 396-402: a valid chunk exists, os.Remove(tmp.Name())
StoreChunkRemoveTemp(c, ok) ==
    /\ pc[c] = "removeTmp"
    /\ IF ok
       THEN /\ tmp' = [tmp EXCEPT ![c] = NoFile]
            /\ Return(c, "nil")
       ELSE /\ tmp' = tmp
            /\ CheckRetries(c)
    /\ UNCHANGED <<opt, dest, dest0, retriesLeft, renames>>
    /\ UNCHANGED <<seedVars, pruneVars, otherVars>>

\* lines 411-413: sleep, rename again, retriesLeft--
StoreChunkRetry_NoDecrement(c, ok) ==
    /\ pc[c] = "retry"
    /\ renames' = [renames EXCEPT ![c] = @ + 1]
    /\ retriesLeft' = retriesLeft
    /\ IF ok
       THEN RenameOK(c)
       ELSE /\ pc' = [pc EXCEPT ![c] = "stat"]
            /\ UNCHANGED <<dest, tmp, ret>>
    /\ UNCHANGED <<opt, dest0>>
    /\ UNCHANGED <<seedVars, pruneVars, otherVars>>
StoreChunkRetry(c, ok) ==
    /\ pc[c] = "retry"
    /\ renames' = [renames EXCEPT ![c] = @ + 1]
    /\ retriesLeft' = [retriesLeft EXCEPT ![c] = @ - 1]
    /\ IF ok
       THEN RenameOK(c)
       ELSE /\ pc' = [pc EXCEPT ![c] = "stat"]
            /\ UNCHANGED <<dest, tmp, ret>>
    /\ UNCHANGED <<opt, dest0>>
    /\ UNCHANGED <<seedVars, pruneVars, otherVars>>

\* the files that can be at p before the first call: none, the chunk, or a
\* corrupt chunk file
InitialFiles == {NoFile, File(ChunkData), File(<<2, 2>>)}

StoreInit ==
    /\ opt \in [SkipVerify : BOOLEAN, Uncompressed : {FALSE}]
    /\ dest \in InitialFiles
    /\ dest0 = dest
    /\ tmp = [c \in Calls |-> NoFile]
    /\ pc = [c \in Calls |-> "start"]
    /\ retriesLeft = [c \in Calls |-> 0]
    /\ ret = [c \in Calls |-> "none"]
    /\ renames = [c \in Calls |-> 0]
    /\ SeedIdle
    /\ PruneIdleVars
    /\ OtherIdle

StoreNext ==
    \E c \in Calls :
        \/ \E created \in BOOLEAN : StoreChunkBegin(c, created)
        \/ \E n \in 0..Len(ChunkData) : StoreChunkWrite(c, n)
        \/ \E ok \in BOOLEAN : StoreChunkRename(c, ok)
        \/ StoreChunkStat(c)
        \/ \E readOK \in BOOLEAN : StoreChunkValidate(c, readOK)
        \/ \E ok \in BOOLEAN : StoreChunkRemoveInvalid(c, ok)
        \/ \E ok \in BOOLEAN : StoreChunkRemoveTemp(c, ok)
        \/ \E ok \in BOOLEAN : StoreChunkRetry(c, ok)


(***************************************************************************)
(* LocalStore.Prune and GCSStore.Prune                                     *)
(***************************************************************************)

PruneIDs == 1..NumPruneIDs

CompressedChunkExt == ".cacnk"
UncompressedChunkExt == ".uncacnk"

\* A file below Base (an object of the bucket) by the parts of its name that
\* Prune looks at:
\*   id    the chunk ID its base name parses to, 0 when ChunkIDFromString fails
\*   ext   its extension
\*   place "canon" when it lies in the directory sID[0:4] of its ID; "short" when
\*         its directory is a shorter prefix of the ID (it sorts before the
\*         canonical directories); "far" when its directory is unrelated to the
\*         ID (it sorts after them)
ChunkNames == [id : PruneIDs, ext : {CompressedChunkExt, UncompressedChunkExt},
               place : {"short", "canon", "far"}]
OtherNames == [id : {0}, ext : {CompressedChunkExt, UncompressedChunkExt},
               place : {"canon"}]
Names == ChunkNames \cup OtherNames

\* The names explored in a store with options o: any name in the directory of
\* its ID, and misplaced names with the extension of the store. (A misplaced
\* file with the other extension is skipped by the extension test like one in
\* its own directory.)
StoreNames(o) ==
    { n \in Names :
        n.place = "canon"
          \/ n.ext = IF o.Uncompressed THEN UncompressedChunkExt
                     ELSE CompressedChunkExt }

\* the directory Base itself, the first entry filepath.Walk visits
BaseDir == [id |-> 0, ext |-> "", place |-> "dir"]

\* lexical order of the walk and of the object listing
PlaceRank(pl) == IF pl = "dir" THEN 0 ELSE IF pl = "short" THEN 1
                 ELSE IF pl = "canon" THEN 2 ELSE 3
ExtRank(e) == IF e = CompressedChunkExt THEN 0 ELSE 1
WalkKey(n) == PlaceRank(n.place) * 100 + n.id * 2 + ExtRank(n.ext)

\* s.nameFromID(id), LocalStore and GCSStore
nameFromID_OtherExt(o, id) ==
    [id |-> id,
     ext |-> IF o.Uncompressed THEN CompressedChunkExt ELSE UncompressedChunkExt,
     place |-> "canon"]
nameFromID(o, id) ==
    [id |-> id,
     ext |-> IF o.Uncompressed THEN UncompressedChunkExt ELSE CompressedChunkExt,
     place |-> "canon"]

\* the extension test and ChunkIDFromString of the walk function of
\* LocalStore.Prune (lines 508-529): the ID, or 0 when the entry is skipped
localIDFromPath(o, n) ==
    IF n.place = "dir" THEN 0
    ELSE IF o.Uncompressed /\ n.ext # UncompressedChunkExt THEN 0
    ELSE IF ~o.Uncompressed /\ n.ext # CompressedChunkExt THEN 0
    ELSE n.id

\* GCSStore.idFromName: the ID, or 0 when it returns an error; the directory
\* fragment has to be a prefix of the ID fragment
idFromName(o, n) ==
    IF o.Uncompressed /\ n.ext # UncompressedChunkExt THEN 0
    ELSE IF ~o.Uncompressed /\ n.ext # CompressedChunkExt THEN 0
    ELSE IF n.place \notin {"canon", "short"} THEN 0
    ELSE n.id

\* LocalStore.RemoveChunk(id) on the files F: the files left and the error
RemoveChunk_IgnoreFailure(F, o, id, removeOK) ==
    IF nameFromID(o, id) \notin F THEN [files |-> F, err |-> "ChunkMissing"]
    ELSE IF removeOK THEN [files |-> F \ {nameFromID(o, id)}, err |-> "nil"]
    ELSE [files |-> F, err |-> "nil"]
RemoveChunk(F, o, id, removeOK) ==
    IF nameFromID(o, id) \notin F THEN [files |-> F, err |-> "ChunkMissing"]
    ELSE IF removeOK THEN [files |-> F \ {nameFromID(o, id)}, err |-> "nil"]
    ELSE [files |-> F, err |-> "removeErr"]

\* GCSStore.RemoveChunk(id): Delete of the object named nameFromID(id)
gcsRemoveChunk_NextID(F, o, id, removeOK) ==
    IF nameFromID(o, id) \notin F THEN [files |-> F, err |-> "ObjectNotExist"]
    ELSE IF removeOK
    THEN [files |-> F \ {nameFromID(o, (id % NumPruneIDs) + 1)}, err |-> "nil"]
    ELSE [files |-> F, err |-> "deleteErr"]
gcsRemoveChunk(F, o, id, removeOK) ==
    IF nameFromID(o, id) \notin F THEN [files |-> F, err |-> "ObjectNotExist"]
    ELSE IF removeOK THEN [files |-> F \ {nameFromID(o, id)}, err |-> "nil"]
    ELSE [files |-> F, err |-> "deleteErr"]

\* the files RemoveChunk(id) finds: those of the store, less the chunk file if
\* another process removed it since the walk visited the entry
FilesAtRemove(F, o, id, gone) == IF gone THEN F \ {nameFromID(o, id)} ELSE F

\* the entries the walk has not passed yet, and the next of them
Ahead(F, last) == { n \in F : WalkKey(n) > last }
NextEntry(F, last) ==
    CHOOSE n \in Ahead(F, last) : \A m \in Ahead(F, last) : WalkKey(n) <= WalkKey(m)

\* return err (Prune returns what the walk returns)
PruneReturn(e) == prune' = [prune EXCEPT !.pc = "done", !.ret = e]

\* ctx is cancelled while Prune runs
Cancel ==
    /\ ~cancelled
    /\ prune.pc = "walk"
    /\ cancelled' = TRUE
    /\ UNCHANGED <<kind, files, ids, prune, files0>>
    /\ UNCHANGED <<seedVars, storeVars, otherVars>>

\* LocalStore.Prune: one call of the walk function (lines 498-538), or the end
\* of filepath.Walk. walkOK = FALSE when Walk passes an error to the function;
\* removeOK = FALSE when os.Remove fails; gone = TRUE when another process
\* pruning the store removes the chunk file between the walk's visit and
\* RemoveChunk.
LocalStorePrune(walkOK, removeOK, gone) ==
    /\ kind = "local"
    /\ prune.pc = "walk"
    /\ LET F == files \cup {BaseDir}
       IN  IF Ahead(F, prune.last) = {}
           THEN PruneReturn("nil") /\ files' = files
           ELSE LET n  == NextEntry(F, prune.last)
                    id == localIDFromPath(opt, n)
                    r  == RemoveChunk(FilesAtRemove(files, opt, id, gone),
                                      opt, id, removeOK)
                IN  IF cancelled
                    THEN PruneReturn("Interrupted") /\ files' = files
                    ELSE IF ~walkOK
                    THEN PruneReturn("walkErr") /\ files' = files
                    ELSE IF id = 0 \/ id \in ids
                    THEN /\ prune' = [prune EXCEPT !.last = WalkKey(n)]
                         /\ files' = files
                    ELSE IF r.err # "nil"
                    THEN PruneReturn(r.err) /\ files' = r.files
                    ELSE /\ prune' = [prune EXCEPT !.last = WalkKey(n)]
                         /\ files' = r.files
    /\ UNCHANGED <<kind, ids, cancelled, files0>>
    /\ UNCHANGED <<seedVars, storeVars, otherVars>>

\* GCSStore.Prune: one iteration of the loop over the object iterator (lines
\* 193-221). nextOK = FALSE when it.Next() fails, as it does when it has to
\* fetch a page of the listing and ctx, which the iterator was made with, is
\* cancelled; removeOK = FALSE when Delete fails; gone = TRUE when another
\* process pruning the bucket deletes the object between the listing and Delete.
GCSStorePrune(nextOK, removeOK, gone) ==
    /\ kind = "gcs"
    /\ prune.pc = "walk"
    /\ IF Ahead(files, prune.last) = {}
       THEN IF nextOK
            THEN PruneReturn("nil") /\ files' = files
            ELSE PruneReturn("iterErr") /\ files' = files
       ELSE LET n  == NextEntry(files, prune.last)
                id == idFromName(opt, n)
                r  == gcsRemoveChunk(FilesAtRemove(files, opt, id, gone),
                                     opt, id, removeOK)
            IN  IF ~nextOK
                THEN PruneReturn("iterErr") /\ files' = files
                ELSE IF cancelled
                THEN PruneReturn("Interrupted") /\ files' = files
                ELSE IF id = 0 \/ id \in ids
                THEN /\ prune' = [prune EXCEPT !.last = WalkKey(n)]
                     /\ files' = files
                ELSE IF r.err # "nil"
                THEN PruneReturn(r.err) /\ files' = r.files
                ELSE /\ prune' = [prune EXCEPT !.last = WalkKey(n)]
                     /\ files' = r.files
    /\ UNCHANGED <<kind, ids, cancelled, files0>>
    /\ UNCHANGED <<seedVars, storeVars, otherVars>>

\* Prune(ctx, ids) has been called on a store holding files
PruneInit ==
    /\ kind \in {"local", "gcs"}
    /\ opt \in [SkipVerify : {FALSE}, Uncompressed : BOOLEAN]
    /\ files \in { F \in SUBSET StoreNames(opt) : Cardinality(F) <= MaxFiles }
    /\ ids \in SUBSET PruneIDs
    /\ cancelled = FALSE
    /\ prune = [PruneIdle EXCEPT !.pc = "walk"]
    /\ files0 = files
    /\ SeedIdle
    /\ PruneStoreIdle
    /\ OtherIdle

PruneNext ==
    \/ Cancel
    \/ \E walkOK, removeOK, gone \in BOOLEAN : LocalStorePrune(walkOK, removeOK, gone)
    \/ \E nextOK, removeOK, gone \in BOOLEAN : GCSStorePrune(nextOK, removeOK, gone)

\* runPrune, line 92: s.Prune(ctx, ids) is called once more on the same store
\* with the same ids and a live context, after a call that returned nil
PruneAgain ==
    /\ prune.pc = "done"
    /\ prune.ret = "nil"
    /\ runs = 0
    /\ runs' = 1
    /\ files1' = files
    /\ cancelled' = FALSE
    /\ prune' = [PruneIdle EXCEPT !.pc = "walk"]
    /\ UNCHANGED <<kind, files, ids, files0>>
    /\ UNCHANGED <<seedVars, storeVars, verifyVars, getVars, credVars, tarVars,
                   moreVars>>

\* Prune(ctx, ids) has been called on a store holding at most MaxFilesAgain files
PruneTwiceInit ==
    /\ kind \in {"local", "gcs"}
    /\ opt \in [SkipVerify : {FALSE}, Uncompressed : BOOLEAN]
    /\ files \in { F \in SUBSET StoreNames(opt) : Cardinality(F) <= MaxFilesAgain }
    /\ ids \in SUBSET PruneIDs
    /\ cancelled = FALSE
    /\ prune = [PruneIdle EXCEPT !.pc = "walk"]
    /\ files0 = files
    /\ SeedIdle
    /\ PruneStoreIdle
    /\ OtherIdle

PruneTwiceNext ==
    \/ PruneNext
    \/ PruneAgain

(***************************************************************************)
(* LocalStore.Verify                                                       *)
(***************************************************************************)

\* the files of a verified store: chunk files of either extension and files
\* whose name is not a chunk ID, each in the directory nameFromID gives it
VerifyNames == { n \in Names : n.place = "canon" }

\* the chunk files that carry the extension of a store with options o
OwnChunkFiles(F, o) == { n \in F : n.id # 0 /\ n = nameFromID(o, n.id) }

\* the bytes of chunk k, the ID they hash to, and bytes that do not hash to it
ChunkBytes(k) == <<k>>
ChunkIDOf(k) == Sum(ChunkBytes(k))
BadBytes(k) == <<k, k>>

\* the file at the path nameFromID(k) when the store holds the files F, those
\* of C with bad bytes
FileAt(F, C, o, k) ==
    IF nameFromID(o, k) \notin F THEN NoFile
    ELSE IF nameFromID(o, k) \in C THEN File(BadBytes(k))
    ELSE File(ChunkBytes(k))

\* fmt.Fprintln(w, msg): the message msg about chunk id is written to w
Fprintln(L, id, msg) == L \cup {[id |-> id, msg |-> msg]}

\* ctx is cancelled while Verify walks
VerifyCancel ==
    /\ ~cancelled
    /\ verify.pc \in {"walk", "send"}
    /\ cancelled' = TRUE
    /\ UNCHANGED <<kind, files, ids, prune, files0>>
    /\ UNCHANGED <<corrupt, verify, workers, log, checked>>
    /\ UNCHANGED <<seedVars, storeVars, againVars, getVars, credVars, tarVars,
                   moreVars>>

\* the walk is over with error e: filepath.Walk returns e, close(ids), wg.Wait()
VerifyWalkEnd(e) == verify' = [verify EXCEPT !.pc = "wait", !.ret = e]

\* LocalStore.Verify: one call of the walk function up to its send (lines
\* 453-485), or the end of filepath.Walk and close(ids) (line 489).
\* walkOK = FALSE when Walk passes an error to the function. With the ID of a
\* chunk file the function goes on to ids <- id.
VerifyWalk(walkOK) ==
    /\ verify.pc = "walk"
    /\ LET F == files \cup {BaseDir}
       IN  IF Ahead(F, verify.last) = {}
           THEN VerifyWalkEnd("nil") /\ workers' = workers
           ELSE LET n  == NextEntry(F, verify.last)
                    id == localIDFromPath(opt, n)
                IN  IF cancelled
                    THEN VerifyWalkEnd("Interrupted") /\ workers' = workers
                    ELSE IF ~walkOK
                    THEN VerifyWalkEnd("walkErr") /\ workers' = workers
                    ELSE IF id = 0
                    THEN /\ verify' = [verify EXCEPT !.last = WalkKey(n)]
                         /\ workers' = workers
                    ELSE /\ verify' = [verify EXCEPT !.pc = "send"]
                         /\ workers' = workers
    /\ UNCHANGED <<kind, files, ids, cancelled, prune, files0>>
    /\ UNCHANGED <<corrupt, log, checked>>
    /\ UNCHANGED <<seedVars, storeVars, againVars, getVars, credVars, tarVars,
                   moreVars>>

\* lines 486-487, ids <- id: the channel is unbuffered, so the send blocks
\* until a worker w is receiving in its range loop (line 429); the walk
\* function returns nil and the walk goes on behind the file.
VerifySend(w) ==
    /\ verify.pc = "send"
    /\ workers[w].pc = "recv"
    /\ LET n  == NextEntry(files \cup {BaseDir}, verify.last)
           id == localIDFromPath(opt, n)
       IN  /\ workers' = [workers EXCEPT ![w] = [pc |-> "check", id |-> id]]
           /\ verify' = [verify EXCEPT !.pc = "walk", !.last = WalkKey(n)]
    /\ UNCHANGED <<kind, files, ids, cancelled, prune, files0>>
    /\ UNCHANGED <<corrupt, log, checked>>
    /\ UNCHANGED <<seedVars, storeVars, againVars, getVars, credVars, tarVars,
                   moreVars>>

\* a worker, lines 429-446: one pass of the loop body for the id it received.
\* readOK = FALSE when ioutil.ReadFile fails in GetChunk; removeOK = FALSE when
\* os.Remove fails in RemoveChunk.
VerifyCheck_ReturnFailure(w, readOK, removeOK) ==
    /\ verify.pc \in {"walk", "send", "wait"}
    /\ workers[w].pc = "check"
    /\ LET id == workers[w].id
           c  == GetChunk(opt, ChunkIDOf(id), FileAt(files, corrupt, opt, id), readOK)
       IN  /\ verify' = IF c.err = "nil" THEN verify
                        ELSE [verify EXCEPT !.ret = c.err]
           /\ files' = files
           /\ log' = IF c.err = "nil" THEN log ELSE Fprintln(log, id, c.err)
           /\ checked' = [checked EXCEPT ![id] = @ + 1]
    /\ workers' = [workers EXCEPT ![w] = [pc |-> "recv", id |-> 0]]
    /\ UNCHANGED <<kind, ids, cancelled, prune, files0, corrupt>>
    /\ UNCHANGED <<seedVars, storeVars, againVars, getVars, credVars, tarVars,
                   moreVars>>
VerifyCheck(w, readOK, removeOK) ==
    /\ verify.pc \in {"walk", "send", "wait"}
    /\ workers[w].pc = "check"
    /\ LET id == workers[w].id
           c  == GetChunk(opt, ChunkIDOf(id), FileAt(files, corrupt, opt, id), readOK)
           r  == RemoveChunk(files, opt, id, removeOK)
       IN  /\ IF c.err = "ChunkInvalid"
              THEN IF verify.repair
                   THEN /\ files' = r.files
                        /\ log' = Fprintln(log, id,
                                      IF r.err # "nil" THEN "ChunkInvalid:" \o r.err
                                      ELSE "ChunkInvalid: removed")
                   ELSE /\ files' = files
                        /\ log' = Fprintln(log, id, "ChunkInvalid")
              ELSE IF c.err = "nil"
              THEN files' = files /\ log' = log
              ELSE files' = files /\ log' = Fprintln(log, id, c.err)
           /\ checked' = [checked EXCEPT ![id] = @ + 1]
    /\ workers' = [workers EXCEPT ![w] = [pc |-> "recv", id |-> 0]]
    /\ UNCHANGED <<kind, ids, cancelled, prune, files0, corrupt, verify>>
    /\ UNCHANGED <<seedVars, storeVars, againVars, getVars, credVars, tarVars,
                   moreVars>>

\* a worker, lines 429 and 447: ids is closed, the range loop ends, wg.Done()
VerifyWorkerExit(w) ==
    /\ verify.pc = "wait"
    /\ workers[w].pc = "recv"
    /\ workers' = [workers EXCEPT ![w] = NoWorker]
    /\ UNCHANGED <<pruneVars, corrupt, verify, log, checked>>
    /\ UNCHANGED <<seedVars, storeVars, againVars, getVars, credVars, tarVars,
                   moreVars>>

\* lines 490-491: wg.Wait() is over, return err
VerifyReturn ==
    /\ verify.pc = "wait"
    /\ \A w \in Workers : workers[w].pc = "exit"
    /\ verify' = [verify EXCEPT !.pc = "done"]
    /\ UNCHANGED <<pruneVars, corrupt, workers, log, checked>>
    /\ UNCHANGED <<seedVars, storeVars, againVars, getVars, credVars, tarVars,
                   moreVars>>

\* Verify(ctx, n, repair, w) has been called on a store holding files, and has
\* started its n workers (lines 422-449): none when n is 0
VerifyInit ==
    /\ kind = "local"
    /\ opt \in [SkipVerify : BOOLEAN, Uncompressed : BOOLEAN]
    /\ files \in { F \in SUBSET VerifyNames : Cardinality(F) <= MaxFilesAgain }
    /\ corrupt \in SUBSET OwnChunkFiles(files, opt)
    /\ \E n \in 0..NumWorkers, repair \in BOOLEAN :
           /\ verify = [VerifyIdle EXCEPT !.pc = "walk", !.n = n, !.repair = repair]
           /\ workers = [w \in Workers |->
                            IF w <= n THEN [pc |-> "recv", id |-> 0] ELSE NoWorker]
    /\ log = {}
    /\ checked = [id \in PruneIDs |-> 0]
    /\ ids = {}
    /\ cancelled = FALSE
    /\ prune = PruneIdle
    /\ files0 = files
    /\ SeedIdle
    /\ PruneStoreIdle
    /\ AgainIdle
    /\ GetIdleVars
    /\ CredsIdleVars
    /\ TarIdleVars
    /\ MoreIdle

VerifyNext ==
    \/ VerifyCancel
    \/ \E walkOK \in BOOLEAN : VerifyWalk(walkOK)
    \/ \E w \in Workers : VerifySend(w)
    \/ \E w \in Workers, readOK, removeOK \in BOOLEAN : VerifyCheck(w, readOK, removeOK)
    \/ \E w \in Workers : VerifyWorkerExit(w)
    \/ VerifyReturn

(***************************************************************************)
(* LocalStore.GetChunk and GCSStore.GetChunk                               *)
(***************************************************************************)

\* the chunk IDs asked for, and the files (objects) found under their name
GetIDs == {Sum(ChunkData), Sum(<<2, 2>>)}

\* errors.Wrap(err, s.String()): a new error value that holds err as its cause
Wrap(e) == "wrapped:" \o e

\* GCSStore.GetChunk(id) reading the object f; readerOK = FALSE when NewReader
\* fails although the backend could be asked for the object, readOK = FALSE when
\* ioutil.ReadAll fails
gcsGetChunk(o, id, f, readerOK, readOK) ==
    IF ~readerOK THEN [err |-> Wrap("backendErr"), data |-> <<>>]
    ELSE IF ~f.exists THEN [err |-> Wrap("ErrObjectNotExist"), data |-> <<>>]
    ELSE IF ~readOK THEN [err |-> "readErr", data |-> <<>>]
    ELSE NewChunkWithID(id, f.data, o.SkipVerify)

\* the call has returned c
GetReturn(id, readerOK, readOK, c) ==
    got' = [called |-> TRUE, id |-> id, readerOK |-> readerOK, readOK |-> readOK,
            err |-> c.err, data |-> c.data]

\* a call of LocalStore.GetChunk(id), the file at nameFromID(id) being dest
LocalStoreGetChunk(id, readOK) ==
    /\ kind = "local"
    /\ ~got.called
    /\ GetReturn(id, TRUE, readOK, GetChunk(opt, id, dest, readOK))
    /\ UNCHANGED <<seedVars, storeVars, pruneVars, againVars, verifyVars,
                   credVars, tarVars, moreVars>>

\* a call of GCSStore.GetChunk(id), the object named nameFromID(id) being dest
GCSStoreGetChunk(id, readerOK, readOK) ==
    /\ kind = "gcs"
    /\ ~got.called
    /\ GetReturn(id, readerOK, readOK, gcsGetChunk(opt, id, dest, readerOK, readOK))
    /\ UNCHANGED <<seedVars, storeVars, pruneVars, againVars, verifyVars,
                   credVars, tarVars, moreVars>>

\* a store with any options that holds, under the name of the chunk asked for,
\* nothing, the bytes of ChunkData or the bytes <<2, 2>>
GetInit ==
    /\ kind \in {"local", "gcs"}
    /\ opt \in [SkipVerify : BOOLEAN, Uncompressed : BOOLEAN]
    /\ dest \in InitialFiles
    /\ dest0 = dest
    /\ got = GetIdle
    /\ tmp = [c \in Calls |-> NoFile]
    /\ pc = [c \in Calls |-> "done"]
    /\ retriesLeft = [c \in Calls |-> 0]
    /\ ret = [c \in Calls |-> "none"]
    /\ renames = [c \in Calls |-> 0]
    /\ files = {}
    /\ ids = {}
    /\ cancelled = FALSE
    /\ prune = PruneIdle
    /\ files0 = {}
    /\ SeedIdle
    /\ AgainIdle
    /\ VerifyIdleVars
    /\ CredsIdleVars
    /\ TarIdleVars
    /\ MoreIdle

GetNext ==
    \/ \E id \in GetIDs, readOK \in BOOLEAN : LocalStoreGetChunk(id, readOK)
    \/ \E id \in GetIDs, readerOK, readOK \in BOOLEAN :
           GCSStoreGetChunk(id, readerOK, readOK)

(***************************************************************************)
(* Config.GetS3CredentialsFor                                              *)
(***************************************************************************)

\* the environments: each variable is unset (os.Getenv gives "") or set
Envs == [S3_ACCESS_KEY : {"", "envAccessKey"},
         S3_SECRET_KEY : {"", "envSecretKey"},
         S3_REGION     : {"", "envRegion"}]

\* the S3Creds the config holds for the URL; a URL without entry gives NoS3Creds
S3CredsConfigs == [AccessKey          : {"", "cfgAccessKey"},
                   SecretKey          : {"", "cfgSecretKey"},
                   AwsCredentialsFile : {"", "cfgFile"},
                   AwsProfile         : {""},
                   AwsRegion          : {"", "cfgRegion"}]

\* NewStaticCredentials and NewRefreshableSharedCredentials
NewStaticCredentials(accessKey, secretKey) ==
    [type |-> "static", AccessKey |-> accessKey, SecretKey |-> secretKey,
     File |-> "", Profile |-> ""]
NewRefreshableSharedCredentials(file, profile) ==
    [type |-> "shared", AccessKey |-> "", SecretKey |-> "",
     File |-> file, Profile |-> profile]

\* c.GetS3CredentialsFor(u) in the environment e, credsConfig being the entry
\* of the config for u: the credentials and the region
GetS3CredentialsFor(e, credsConfig) ==
    IF e.S3_ACCESS_KEY # "" \/ e.S3_SECRET_KEY # ""
    THEN [creds  |-> NewStaticCredentials(e.S3_ACCESS_KEY, e.S3_SECRET_KEY),
          region |-> e.S3_REGION]
    ELSE [creds  |-> IF credsConfig.AccessKey # ""
                     THEN NewStaticCredentials(credsConfig.AccessKey,
                                               credsConfig.SecretKey)
                     ELSE IF credsConfig.AwsCredentialsFile # ""
                     THEN NewRefreshableSharedCredentials(
                              credsConfig.AwsCredentialsFile, credsConfig.AwsProfile)
                     ELSE NewStaticCredentials("", ""),
          region |-> credsConfig.AwsRegion]

\* a call of c.GetS3CredentialsFor(u)
GetS3CredentialsForCall ==
    /\ creds.pc = "call"
    /\ LET r == GetS3CredentialsFor(env, config)
       IN  creds' = [pc |-> "done", creds |-> r.creds, region |-> r.region]
    /\ UNCHANGED <<env, config>>
    /\ UNCHANGED <<seedVars, storeVars, pruneVars, againVars, verifyVars,
                   getVars, tarVars, moreVars>>

CredsInit ==
    /\ env \in Envs
    /\ config \in S3CredsConfigs
    /\ creds = [CredsIdle EXCEPT !.pc = "call"]
    /\ SeedIdle
    /\ StoreIdle
    /\ PruneIdleVars
    /\ AgainIdle
    /\ VerifyIdleVars
    /\ GetIdleVars
    /\ TarIdleVars
    /\ MoreIdle

CredsNext == GetS3CredentialsForCall

(***************************************************************************)
(* Tar                                                                     *)
(***************************************************************************)

\* the node types: directory, regular file, and two of those that are neither
NodeKinds == {"dir", "reg", "symlink", "device"}

\* the directories of the tree t
Dirs(t) == { i \in 1..Len(t) : t[i].kind = "dir" }

\* The trees of n nodes. Node 1 is src; node i > 1 lies in the directory
\* t[i].parent, a node with a smaller number.
RECURSIVE TreesOfSize(_)
TreesOfSize(n) ==
    IF n = 1 THEN { <<[parent |-> 0, kind |-> k]>> : k \in NodeKinds }
    ELSE UNION { { Append(t, [parent |-> p, kind |-> k]) :
                     p \in Dirs(t), k \in NodeKinds } :
                 t \in TreesOfSize(n - 1) }
Trees == UNION { TreesOfSize(n) : n \in 1..MaxNodes }

\* ioutil.ReadDir(path) of directory d: its children, sorted by name (the order
\* of the node numbers)
RECURSIVE ChildrenFrom(_, _, _)
ChildrenFrom(t, d, i) ==
    IF i > Len(t) THEN <<>>
    ELSE IF t[i].parent = d THEN <<i>> \o ChildrenFrom(t, d, i + 1)
    ELSE ChildrenFrom(t, d, i + 1)
ReadDir(t, d) == ChildrenFrom(t, d, 1)

\* an encoded element: its type and the node it was encoded for
Element(type, node) == [type |-> type, node |-> node]

\* the Size in the FormatHeader of the elements (lines 99, 131, 186); Encode
\* writes Size bytes for an element and returns that number. The name of node
\* x has x characters and a regular file x holds 2x bytes: len(s.Name()) and
\* info.Size() differ from node to node.
EntrySize == 64
FilenameSize(x) == 16 + x + 1
PayloadSize(x) == 16 + 2 * x

\* SipHash([]byte(s.Name())): different names have different hashes, in an
\* order that is not the order of the names
SipHash(x) == (3 * x) % (MaxNodes + 3)

\* CaFormatGoodbyeTailMarker, which is no hash of a name
CaFormatGoodbyeTailMarker == MaxNodes + 3

\* the items sorted by ascending Hash
RECURSIVE SortByHash(_)
SortByHash(items) ==
    IF items = <<>> THEN <<>>
    ELSE LET m == CHOOSE i \in 1..Len(items) :
                      \A j \in 1..Len(items) : items[i].Hash <= items[j].Hash
         IN  <<items[m]>> \o
             SortByHash(SubSeq(items, 1, m - 1) \o SubSeq(items, m + 1, Len(items)))

\* the in-order traversal of the complete binary tree of n nodes that is laid
\* out as an array: the children of the node at i are at 2i and 2i + 1
RECURSIVE InOrder(_, _)
InOrder(i, n) ==
    IF i > n THEN <<>>
    ELSE InOrder(2 * i, n) \o <<i>> \o InOrder(2 * i + 1, n)

\* makeGoodbyeBST(items): the items arranged as a complete binary search tree
\* by Hash, in array layout
makeGoodbyeBST(items) ==
    LET sorted == SortByHash(items)
        order  == InOrder(1, Len(items))
    IN  [j \in 1..Len(items) |->
            sorted[CHOOSE k \in 1..Len(items) : order[k] = j]]

\* lines 152-172: the FormatGoodbye of a directory whose call has written n
\* bytes and collected items
FormatGoodbye(items, n) ==
    LET fixed == [i \in 1..Len(items) |->
                     [items[i] EXCEPT !.Offset = n - items[i].Offset]]
        bst   == makeGoodbyeBST(fixed)
        all   == Append(bst, [Offset |-> n,
                              Size   |-> 16 + Len(bst) * 24 + 24,
                              Hash   |-> CaFormatGoodbyeTailMarker])
    IN  [Size |-> 16 + Len(all) * 24, Items |-> all]

\* ctx is cancelled while tar runs
TarCancel ==
    /\ ~cancelled
    /\ tar.pc \in {"call", "loop"}
    /\ cancelled' = TRUE
    /\ UNCHANGED <<kind, files, ids, prune, files0>>
    /\ UNCHANGED <<tarVars>>
    /\ UNCHANGED <<seedVars, storeVars, againVars, verifyVars, getVars, credVars,
                   moreVars>>

\* return n, err with err # nil: every enclosing call returns the error too
\* (lines 141-143)
TarFail(e) == [tar EXCEPT !.pc = "done", !.stack = <<>>, !.ret = e]

\* line 123, continue: the loop of the directory goes on with the next child
TarContinue(stack) ==
    [tar EXCEPT !.pc = "loop",
                !.stack = [stack EXCEPT ![Len(stack)].next = @ + 1]]

\* return from the call for a node, which wrote nn bytes, without error: Tar
\* returns if it was the call for src, else the enclosing call adds nn to its
\* n, appends the item of the child and goes on with the next child (lines
\* 139-150)
TarReturned(stack, nn) ==
    IF stack = <<>>
    THEN [tar EXCEPT !.pc = "done", !.stack = <<>>, !.ret = "nil"]
    ELSE LET top == stack[Len(stack)]
             n   == top.n + nn
             s   == ReadDir(tree, top.dir)[top.next]
         IN  [tar EXCEPT
                 !.pc = "loop",
                 !.stack = [stack EXCEPT ![Len(stack)] =
                     [top EXCEPT !.next = @ + 1,
                                 !.n = n,
                                 !.items = Append(@, [Offset |-> top.start,
                                                      Size   |-> n - top.start,
                                                      Hash   |-> SipHash(s)])]]]

\* tar(ctx, enc, path, info, dev) from its start (lines 65-117, 179-193, 225):
\* for a directory up to the loop over its children, for any other node up to
\* its return. encOK = FALSE when enc.Encode(entry) fails; bodyOK = FALSE when
\* ioutil.ReadDir fails, or os.Open or enc.Encode(payload).
TarCall(encOK, bodyOK) ==
    /\ tar.pc = "call"
    /\ LET x == tar.node
           k == tree[x].kind
       IN  IF cancelled
           THEN tar' = TarFail("Interrupted") /\ stream' = stream
           ELSE IF k \notin {"dir", "reg"}
           THEN tar' = TarReturned(tar.stack, 0) /\ stream' = stream
           ELSE IF ~encOK
           THEN tar' = TarFail("encodeErr") /\ stream' = stream
           ELSE IF ~bodyOK
           THEN /\ stream' = Append(stream, Element("Entry", x))
                /\ tar' = TarFail(IF k = "dir" THEN "readDirErr" ELSE "payloadErr")
           ELSE IF k = "dir"
           THEN /\ stream' = Append(stream, Element("Entry", x))
                /\ tar' = [tar EXCEPT !.pc = "loop",
                                      !.stack = Append(@, [dir |-> x, next |-> 1,
                                                           n |-> EntrySize,
                                                           start |-> 0,
                                                           items |-> <<>>])]
           ELSE /\ stream' = stream \o <<Element("Entry", x), Element("Payload", x)>>
                /\ tar' = TarReturned(tar.stack, EntrySize + PayloadSize(x))
    /\ UNCHANGED <<tree, goodbye>>
    /\ UNCHANGED <<seedVars, storeVars, pruneVars, againVars, verifyVars,
                   getVars, credVars, moreVars>>

\* the loop over the children of a directory and what follows it (lines
\* 119-177): the next child is skipped, or its Filename is encoded and tar is
\* called for it; after the last child the Goodbye is encoded and the call for
\* the directory returns. encOK = FALSE when enc.Encode fails; otherVolume =
\* TRUE when dev # 0 and getVolumeID of the child fails or differs from dev.
TarLoop(encOK, otherVolume) ==
    /\ tar.pc = "loop"
    /\ LET top   == tar.stack[Len(tar.stack)]
           stats == ReadDir(tree, top.dir)
           g     == FormatGoodbye(top.items, top.n)
       IN  IF top.next <= Len(stats)
           THEN IF tar.dev # 0 /\ otherVolume
                THEN /\ tar' = TarContinue(tar.stack)
                     /\ stream' = stream
                     /\ goodbye' = goodbye
                ELSE IF ~encOK
                THEN tar' = TarFail("encodeErr") /\ stream' = stream
                     /\ goodbye' = goodbye
                ELSE /\ stream' = Append(stream, Element("Filename", stats[top.next]))
                     /\ tar' = [tar EXCEPT
                            !.pc = "call", !.node = stats[top.next],
                            !.stack[Len(tar.stack)].start = top.n,
                            !.stack[Len(tar.stack)].n =
                                top.n + FilenameSize(stats[top.next])]
                     /\ goodbye' = goodbye
           ELSE IF ~encOK
           THEN tar' = TarFail("encodeErr") /\ stream' = stream
                /\ goodbye' = goodbye
           ELSE /\ stream' = Append(stream, Element("Goodbye", top.dir))
                /\ goodbye' = MapPut(goodbye, top.dir, g)
                /\ tar' = TarReturned(SubSeq(tar.stack, 1, Len(tar.stack) - 1),
                                      top.n + g.Size)
    /\ UNCHANGED <<tree>>
    /\ UNCHANGED <<seedVars, storeVars, pruneVars, againVars, verifyVars,
                   getVars, credVars, moreVars>>

\* Tar(ctx, w, src, oneFileSystem) has made the os.Lstat of src and calls
\* tar for it (lines 48-61); dev is 0 unless oneFileSystem is set
TarInit ==
    /\ tree \in Trees
    /\ tar \in { [TarIdle EXCEPT !.pc = "call", !.node = 1, !.dev = dev] :
                    dev \in {0, 1} }
    /\ stream = <<>>
    /\ goodbye = EmptyMap
    /\ SeedIdle
    /\ StoreIdle
    /\ PruneIdleVars
    /\ AgainIdle
    /\ VerifyIdleVars
    /\ GetIdleVars
    /\ CredsIdleVars
    /\ MoreIdle

TarNext ==
    \/ TarCancel
    \/ \E encOK, bodyOK \in BOOLEAN : TarCall(encOK, bodyOK)
    \/ \E encOK, otherVolume \in BOOLEAN : TarLoop(encOK, otherVolume)

(***************************************************************************)
(* MultiStoreWithCache                                                     *)
(***************************************************************************)

\* the cache locations: none, a directory, and URLs of three other schemes
CacheLocations == {"", "dir", "gs", "sftp", "ssh"}

\* StoreFromLocation(location, cmdOpt), lines 94-160: the store of the type
\* the scheme selects, with the merged options; openOK = FALSE when the
\* constructor of the store fails. NewLocalStore leaves UpdateTimes false.
StoreFromLocation(location, cmdOpt, openOK) ==
    IF ~openOK THEN [store |-> "nil", err |-> "openErr"]
    ELSE IF location = "dir"
    THEN [store |-> [type |-> "LocalStore", Base |-> location,
                     UpdateTimes |-> FALSE, SkipVerify |-> cmdOpt.SkipVerify],
          err |-> "nil"]
    ELSE [store |-> [type |-> location, SkipVerify |-> cmdOpt.SkipVerify],
          err |-> "nil"]

\* WritableStore(location, cmdOpt), lines 81-91; LocalStore and GCSStore
\* have StoreChunk, writable tells whether the type of another store has
WritableStore(location, cmdOpt, openOK, writable) ==
    LET s == StoreFromLocation(location, cmdOpt, openOK)
    IN  IF s.err # "nil" THEN s
        ELSE IF location \notin {"dir", "gs"} /\ ~writable
        THEN [store |-> "nil", err |-> "notWritable"]
        ELSE s

\* NewCache(s, l)
NewCache(s, l) == [type |-> "Cache", s |-> s, l |-> l]

\* MultiStoreWithCache(cmdOpt, cacheLocation, storeLocations...), lines 20-41;
\* routerOK = FALSE when MultiStoreWithRouter fails; c is what WritableStore
\* returned (cache, err). The type assertion of line 35 makes ls a copy of the
\* LocalStore held by the interface value cache.
MultiStoreWithCache(routerOK, openOK, writable) ==
    /\ msc.pc = "call"
    /\ LET store == [type |-> "StoreRouter", n |-> msc.storeLocations]
           c     == WritableStore(msc.cacheLocation, msc.cmdOpt, openOK, writable)
           ls    == IF c.err = "nil" /\ c.store.type = "LocalStore"
                    THEN [c.store EXCEPT !.UpdateTimes = TRUE]
                    ELSE "nil"
       IN  msc' = [msc EXCEPT
               !.pc = "done",
               !.cache = IF routerOK /\ msc.cacheLocation # "" THEN c.store ELSE "nil",
               !.ret = IF ~routerOK THEN [store |-> "nil", err |-> "routerErr"]
                       ELSE IF msc.cacheLocation = ""
                       THEN [store |-> store, err |-> "nil"]
                       ELSE IF c.err # "nil"
                       THEN [store |-> store, err |-> c.err]
                       ELSE [store |-> NewCache(store, c.store),
                             err |-> "nil"]]
    /\ UNCHANGED <<device, run>>
    /\ UNCHANGED <<seedVars, storeVars, pruneVars, againVars, verifyVars,
                   getVars, credVars, tarVars>>

\* MultiStoreWithCache is called with a cache location, up to two store
\* locations and the command line options
CacheInit ==
    /\ msc \in [pc : {"call"}, cacheLocation : CacheLocations,
                storeLocations : 0..2, cmdOpt : [SkipVerify : BOOLEAN],
                cache : {"nil"}, ret : {[store |-> "nil", err |-> "none"]}]
    /\ device = [pc |-> "idle"]
    /\ run = [pc |-> "idle"]
    /\ SeedIdle
    /\ StoreIdle
    /\ PruneIdleVars
    /\ AgainIdle
    /\ VerifyIdleVars
    /\ GetIdleVars
    /\ CredsIdleVars
    /\ TarIdleVars

CacheNext ==
    \E routerOK, openOK, writable \in BOOLEAN :
        MultiStoreWithCache(routerOK, openOK, writable)

(***************************************************************************)
(* TarWriteFS.CreateDevice                                                 *)
(***************************************************************************)

\* const modeChar = 0x4000
modeChar == 16384

\* the low-level modes of device nodes: the file type S_IFCHR = 0x2000 or
\* S_IFBLK = 0x6000, and permission bits below 0x1000
DeviceModes == { t + perm : t \in {8192, 24576}, perm \in {0, 384, 432} }

\* fs.CreateDevice(n, opts), lines 74-91; n.Mode&modeChar != 0 is the test of
\* the one bit of modeChar. writeOK = FALSE when fs.w.WriteHeader fails.
CreateDevice(writeOK) ==
    /\ device.pc = "call"
    /\ LET n   == device.n
           typ == IF (n.Mode \div modeChar) % 2 # 0 THEN "TypeChar" ELSE "TypeBlock"
           hdr == [Typeflag |-> typ, Mode |-> n.Mode,
                   Devmajor |-> n.Major, Devminor |-> n.Minor]
       IN  device' = IF writeOK
                     THEN [device EXCEPT !.pc = "done", !.hdr = hdr, !.ret = "nil"]
                     ELSE [device EXCEPT !.pc = "done", !.ret = "writeErr"]
    /\ UNCHANGED <<msc, run>>
    /\ UNCHANGED <<seedVars, storeVars, pruneVars, againVars, verifyVars,
                   getVars, credVars, tarVars>>

\* CreateDevice is called for a device node n
DeviceInit ==
    /\ device \in [pc : {"call"},
                   n : [Mode : DeviceModes, Major : 0..MaxDevNum,
                        Minor : 0..MaxDevNum],
                   hdr : {"none"}, ret : {"none"}]
    /\ msc = [pc |-> "idle"]
    /\ run = [pc |-> "idle"]
    /\ SeedIdle
    /\ StoreIdle
    /\ PruneIdleVars
    /\ AgainIdle
    /\ VerifyIdleVars
    /\ GetIdleVars
    /\ CredsIdleVars
    /\ TarIdleVars

DeviceNext == \E writeOK \in BOOLEAN : CreateDevice(writeOK)

(***************************************************************************)
(* runPrune                                                                *)
(***************************************************************************)

\* what the user can type at the prompt [y/N]: the answers the switch of line
\* 83 knows, and one it does not
Answers == {"y", "Y", "n", "N", "", "x"}

\* return err from runPrune
runPruneReturn(e) == [run EXCEPT !.pc = "done", !.ret = e]

\* lines 43-61: validate the options, open the store, assert PruneStore.
\* valid = FALSE when validate fails, given = FALSE when opt.store is empty,
\* openOK = FALSE when storeFromLocation fails, prunable = FALSE when the type
\* of the store has no Prune.
runPruneOpen(valid, given, openOK, prunable) ==
    /\ run.pc = "start"
    /\ run' = IF ~valid THEN runPruneReturn("validateErr")
              ELSE IF ~given THEN runPruneReturn("no store provided")
              ELSE IF ~openOK THEN runPruneReturn("openErr")
              ELSE IF ~prunable THEN runPruneReturn("does not support pruning")
              ELSE [run EXCEPT !.pc = "read", !.gates = TRUE]
    /\ UNCHANGED <<msc, device>>
    /\ UNCHANGED <<seedVars, storeVars, pruneVars, againVars, verifyVars,
                   getVars, credVars, tarVars>>

\* lines 65-73 and 76: one pass of the loop over args, which reads the index
\* file args[i] and adds the IDs of its chunks to ids; after the last pass
\* opt.yes decides whether the user is asked. readOK = FALSE when ReadCaibxFile
\* fails; chunks are the chunk IDs of the index.
runPruneRead(readOK, chunks) ==
    /\ run.pc = "read"
    /\ run' = IF ~readOK THEN runPruneReturn("readErr")
              ELSE [run EXCEPT
                       !.ids = @ \cup chunks,
                       !.indexes = Append(@, chunks),
                       !.pc = IF Len(run.indexes) + 1 < run.nargs THEN "read"
                              ELSE IF run.yes THEN "prune" ELSE "ask"]
    /\ UNCHANGED <<msc, device>>
    /\ UNCHANGED <<seedVars, storeVars, pruneVars, againVars, verifyVars,
                   getVars, credVars, tarVars>>

\* lines 79-89: one pass of the loop that asks; a is what Fscanln read
runPruneAsk_DefaultYes(a) ==
    /\ run.pc = "ask"
    /\ run' = IF a \in {"y", "Y", ""} THEN [run EXCEPT !.pc = "prune", !.answer = a]
              ELSE IF a \in {"n", "N"}
              THEN [runPruneReturn("nil") EXCEPT !.answer = a]
              ELSE [run EXCEPT !.answer = a]
    /\ UNCHANGED <<msc, device>>
    /\ UNCHANGED <<seedVars, storeVars, pruneVars, againVars, verifyVars,
                   getVars, credVars, tarVars>>
runPruneAsk(a) ==
    /\ run.pc = "ask"
    /\ run' = IF a \in {"y", "Y"} THEN [run EXCEPT !.pc = "prune", !.answer = a]
              ELSE IF a \in {"n", "N", ""}
              THEN [runPruneReturn("nil") EXCEPT !.answer = a]
              ELSE [run EXCEPT !.answer = a]
    /\ UNCHANGED <<msc, device>>
    /\ UNCHANGED <<seedVars, storeVars, pruneVars, againVars, verifyVars,
                   getVars, credVars, tarVars>>

\* line 92: s.Prune(ctx, ids) is called
runPruneCall ==
    /\ run.pc = "prune"
    /\ run' = [run EXCEPT !.pc = "pruning", !.called = @ + 1]
    /\ ids' = run.ids
    /\ prune' = [PruneIdle EXCEPT !.pc = "walk"]
    /\ UNCHANGED <<kind, files, cancelled, files0>>
    /\ UNCHANGED <<msc, device>>
    /\ UNCHANGED <<seedVars, storeVars, againVars, verifyVars,
                   getVars, credVars, tarVars>>

\* line 92: Prune has returned, runPrune returns its error
runPruneDone ==
    /\ run.pc = "pruning"
    /\ prune.pc = "done"
    /\ run' = runPruneReturn(prune.ret)
    /\ UNCHANGED <<msc, device>>
    /\ UNCHANGED <<seedVars, storeVars, pruneVars, againVars, verifyVars,
                   getVars, credVars, tarVars>>

\* the prune command is run with up to MaxArgs index files, with or without
\* --yes, on a store that holds some chunks
RunPruneInit ==
    /\ run \in [pc : {"start"}, yes : BOOLEAN, nargs : 1..MaxArgs,
                gates : {FALSE}, ids : {{}}, indexes : {<<>>}, answer : {"none"},
                called : {0}, ret : {"none"}]
    /\ kind \in {"local", "gcs"}
    /\ opt = [SkipVerify |-> FALSE, Uncompressed |-> FALSE]
    /\ files \in SUBSET { nameFromID(opt, id) : id \in PruneIDs }
    /\ ids = {}
    /\ cancelled = FALSE
    /\ prune = PruneIdle
    /\ files0 = files
    /\ msc = [pc |-> "idle"]
    /\ device = [pc |-> "idle"]
    /\ SeedIdle
    /\ PruneStoreIdle
    /\ AgainIdle
    /\ VerifyIdleVars
    /\ GetIdleVars
    /\ CredsIdleVars
    /\ TarIdleVars

RunPruneNext ==
    \/ \E valid, given, openOK, prunable \in BOOLEAN :
           runPruneOpen(valid, given, openOK, prunable)
    \/ \E readOK \in BOOLEAN, chunks \in SUBSET PruneIDs : runPruneRead(readOK, chunks)
    \/ \E a \in Answers : runPruneAsk(a)
    \/ runPruneCall
    \/ PruneNext
    \/ runPruneDone

(***************************************************************************)
(* Specifications                                                          *)
(***************************************************************************)

\* newSelfSeed
SeedInit ==
    /\ index \in UNION { [1..n -> ChunkIDs] : n \in 0..MaxIndexLen }
    /\ pos = EmptyMap
    /\ written = 0
    /\ cache = EmptyMap
    /\ added = <<>>
    /\ appended = <<>>
    /\ lm = LMIdle
    /\ StoreIdle
    /\ PruneIdleVars
    /\ OtherIdle

SeedNext ==
    \/ \E segment \in IndexSegments(Len(index)) : add(segment)
    \/ \E chunks \in ChunkArgs : LongestMatchWithStart(chunks)
    \/ LongestMatchWithIter
    \/ LongestMatchWithReturn

SeedSpec == SeedInit /\ [][SeedNext]_vars

StoreSpec == StoreInit /\ [][StoreNext]_vars

PruneSpec == PruneInit /\ [][PruneNext]_vars

PruneTwiceSpec == PruneTwiceInit /\ [][PruneTwiceNext]_vars

VerifySpec == VerifyInit /\ [][VerifyNext]_vars

\* Verify under the fairness of the Go scheduler: the goroutine that called
\* Verify and each worker goroutine takes its next step when it can. Nothing
\* makes the context get cancelled or the walk fail.
VerifyLiveSpec ==
    /\ VerifyInit
    /\ [][VerifyNext]_vars
    /\ WF_vars((\E walkOK \in BOOLEAN : VerifyWalk(walkOK)) \/ VerifyReturn)
    /\ \A w \in Workers :
           WF_vars(VerifySend(w) \/ VerifyWorkerExit(w)
                       \/ \E readOK, removeOK \in BOOLEAN :
                              VerifyCheck(w, readOK, removeOK))

GetSpec == GetInit /\ [][GetNext]_vars

CredsSpec == CredsInit /\ [][CredsNext]_vars

TarSpec == TarInit /\ [][TarNext]_vars

CacheSpec == CacheInit /\ [][CacheNext]_vars

RunPruneSpec == RunPruneInit /\ [][RunPruneNext]_vars

DeviceSpec == DeviceInit /\ [][DeviceNext]_vars

(***************************************************************************)
(* Properties of selfSeed                                                  *)
(***************************************************************************)

\* index position q is covered by a segment already passed to add
Covered(q) == \E k \in 1..Len(added) : added[k].first <= q /\ q <= added[k].last

\* index position q is recorded in the position map p
Recorded(p, q) == \E id \in DOMAIN p : \E i \in 1..Len(p[id]) : p[id][i] = q

\* the step is a call of add, and the segment it was called with
IsAdd == Len(added') = Len(added) + 1
AddedSegment == added'[Len(added')]

\* the largest k such that every position of [0, k) is covered
LargestCoveredPrefix ==
    CHOOSE k \in 0..Len(index) :
        /\ \A q \in 0..(k - 1) : Covered(q)
        /\ k = Len(index) \/ ~Covered(k)

\* C1: every index position stored in pos, and every position covered by the
\* match LongestMatchWith holds or has returned, is below written, and every
\* position below written belongs to a segment already passed to add.
C1_SeedSafety ==
    /\ \A id \in DOMAIN pos : \A i \in 1..Len(pos[id]) :
           pos[id][i] >= 0 /\ pos[id][i] < written
    /\ lm.max > 0 => lm.match >= 0 /\ lm.match + lm.max <= written
    /\ \A q \in 0..(written - 1) : Covered(q)

\* C1 witness: LongestMatchWith returned a match that stops at written although
\* the index goes on matching the argument beyond it.
C1_Witness ==
    /\ lm.pc = "done"
    /\ lm.max >= 1
    /\ lm.match + lm.max = written
    /\ written < Len(index)
    /\ Len(lm.chunks) > lm.max
    /\ index[written + 1] = lm.chunks[lm.max + 1]

\* C2: with pairwise disjoint segments, written is the largest k such that all
\* of [0, k) is covered by segments already added, and adding a segment whose
\* first is beyond written changes neither written nor pos.
C2_WrittenIsCoveredPrefix ==
    /\ [](written = LargestCoveredPrefix)
    /\ [][(IsAdd /\ AddedSegment.first > written)
              => (written' = written /\ pos' = pos)]_vars

\* C2 witness: a prefix has been written while a later segment waits in the cache.
C2_Witness ==
    /\ written > 0
    /\ written < Len(index)
    /\ DOMAIN cache # {}
    /\ Len(added) >= 2

\* C3: index positions are appended to pos in the order 0, 1, 2, ... without gap
\* or repetition, whatever the order of the add calls, and each pos[id] is
\* strictly ascending and holds exactly the appended positions of that ID.
C3_AppendedInIndexOrder ==
    /\ Len(appended) = written
    /\ \A i \in 1..Len(appended) : appended[i] = i - 1
    /\ \A id \in DOMAIN pos :
           /\ \A i \in 1..(Len(pos[id]) - 1) : pos[id][i] < pos[id][i + 1]
           /\ \A i \in 1..Len(pos[id]) : index[pos[id][i] + 1] = id
    /\ \A q \in 0..(written - 1) : Recorded(pos, q)

\* C3 witness: the first add call was out of order, and all positions were
\* recorded, two of them under the same ID.
C3_Witness ==
    /\ Len(added) >= 2
    /\ added[1].first > 0
    /\ written = Len(index)
    /\ \E id \in DOMAIN pos : Len(pos[id]) >= 2

\* C4 as stated: a segment is the half-open range first .. last-1, so an in-order
\* add into an empty cache leaves written = last and position last unrecorded.
C4_HalfOpenSegment ==
    [][(IsAdd /\ AddedSegment.first = written /\ DOMAIN cache = {})
          => (written' = AddedSegment.last
                /\ ~Recorded(pos', AddedSegment.last))]_vars

\* C4 amended: a segment is the inclusive range first .. last: an in-order add
\* into an empty cache leaves written = last + 1, records position last and
\* records nothing beyond it.
C4_InclusiveSegment ==
    [][(IsAdd /\ AddedSegment.first = written /\ DOMAIN cache = {})
          => /\ written' = AddedSegment.last + 1
             /\ Recorded(pos', AddedSegment.last)
             /\ \A q \in (AddedSegment.last + 1)..Len(index) :
                    ~Recorded(pos', q)]_vars

\* C4 witness: the state right after one in-order add of a segment of two or
\* more chunks into an empty cache.
C4_Witness ==
    /\ Len(added) = 1
    /\ added[1].first = 0
    /\ added[1].last >= 1
    /\ written = added[1].last + 1
    /\ DOMAIN cache = {}

\* the writers alone
AddNext == \E segment \in IndexSegments(Len(index)) : add(segment)

\* The writers under weak fairness of the calls of add: a worker that has a
\* segment to add gets the lock of s.mu in the end and adds it. The body of add
\* always runs to its end, so add is enabled exactly when the call is, and
\* every step of AddNext is a call, which appends its segment to added.
SeedLiveSpec ==
    /\ SeedInit
    /\ [][AddNext]_vars
    /\ WF_added(\E segment \in IndexSegments(Len(index)) : addCall(segment))

\* the positions of the index that hold id, ascending
RECURSIVE PositionsOf(_, _)
PositionsOf(id, n) ==
    IF n = 0 THEN <<>>
    ELSE IF index[n] = id THEN Append(PositionsOf(id, n - 1), n - 1)
    ELSE PositionsOf(id, n - 1)

\* all chunks are written: written is the length of the index, the cache is
\* empty and pos holds, for every ID of the index, its positions
Complete ==
    /\ written = Len(index)
    /\ DOMAIN cache = {}
    /\ pos = [id \in { index[i] : i \in 1..Len(index) } |->
                  PositionsOf(id, Len(index))]

\* C27: when the workers add segments, each once and in any order, until the
\* segments added partition the index, then in the end and for good written is
\* the length of the index, the cache is empty and pos holds every position
\* once under its chunk ID: a state that the index alone determines.
C27_Completion == <>[]Complete

\* C27 witness: the three chunks of an index were added one by one in reverse
\* order and all are written.
C27_Witness ==
    /\ Len(index) = 3
    /\ Len(added) = 3
    /\ added[1].first = 2 /\ added[2].first = 1 /\ added[3].first = 0
    /\ Complete

\* C30: after every add the keys of the cache are greater than written and
\* every cached value is greater than its key; written never exceeds the number
\* of index chunks and never decreases.
C30_CacheBeyondWritten ==
    /\ [](/\ \A k \in DOMAIN cache : k > written /\ cache[k] > k
          /\ written <= Len(index))
    /\ [][written' >= written]_vars

\* C30 witness: the first chunk is written and the third waits in the cache for
\* the second.
C30_Witness ==
    /\ written = 1
    /\ DOMAIN cache = {2}
    /\ cache[2] = 3
    /\ Len(added) = 2

\* the largest number in a finite set of naturals that holds 0
Max(S) == CHOOSE m \in S : \A k \in S : k <= m

\* the length of the longest run of chunks that matches the index from position
\* p on and ends at or before w
RunLength(chunks, p, w) ==
    Max({ j \in 0..Len(chunks) :
              /\ p + j <= w
              /\ \A i \in 0..(j - 1) : chunks[i + 1] = index[p + i + 1] })

\* the longest such run over the positions below w that hold the ID of chunks[0]
LongestRun(chunks, w) ==
    IF chunks = <<>> THEN 0
    ELSE Max({0} \cup { RunLength(chunks, p, w) :
                            p \in { q \in 0..(w - 1) : index[q + 1] = chunks[1] } })

\* C24 as stated: the count LongestMatchWith returns is the longest run over
\* the written positions.
C24_ReturnsLongest ==
    [][(lm.pc # "done" /\ lm'.pc = "done")
          => lm'.max = LongestRun(lm'.chunks, written')]_vars

\* C24 amended: the count LongestMatchWith returns is at least the longest run
\* over the positions written when it was called and at most the longest run
\* over those written when it returns, hence the longest run if written did not
\* change during the call; it never exceeds len(chunks); the returned chunks
\* have the IDs of chunks[0..count) and lie below written; and the count is 0
\* when chunks or the index is empty or chunks[0] had no written position.
C24_LongestMatch ==
    lm.pc = "done"
        => /\ lm.max <= Len(lm.chunks)
           /\ LongestRun(lm.chunks, lm.w0) <= lm.max
           /\ lm.max <= LongestRun(lm.chunks, written)
           /\ lm.match + lm.max <= written
           /\ \A i \in 0..(lm.max - 1) : index[lm.match + i + 1] = lm.chunks[i + 1]
           /\ (lm.chunks = <<>> \/ index = <<>>
                 \/ \A q \in 0..(lm.w0 - 1) : index[q + 1] # lm.chunks[1])
                  => lm.max = 0

\* C24 witness: a call during which written did not change returned a match of
\* two chunks that does not start at the first position of chunks[0].
C24_Witness ==
    /\ lm.pc = "done"
    /\ written = lm.w0
    /\ lm.max = 2
    /\ Len(lm.pos) >= 2
    /\ lm.match > lm.pos[1]

(***************************************************************************)
(* Properties of LocalStore.StoreChunk                                     *)
(***************************************************************************)

InLoop(c) == pc[c] \in {"stat", "validate", "removeDest", "removeTmp", "retry"}

\* C5: the file at the destination path is absent, or is the file that was there
\* before, or holds the complete bytes of the chunk; and the destination only
\* ever receives a file through the rename of a completely written temp file.
C5_AtomicPublish ==
    /\ [](dest.exists => (dest.data = ChunkData \/ dest = dest0))
    /\ [][(dest' # dest /\ dest'.exists) =>
             \E c \in Calls :
                 /\ pc[c] \in {"rename", "retry"}
                 /\ tmp[c] = File(ChunkData)
                 /\ dest' = tmp[c]
                 /\ ~tmp'[c].exists]_vars

\* C5 witness: the chunk has been published at a destination that was empty
\* while another call is still writing its temp file.
C5_Witness ==
    /\ dest0 = NoFile
    /\ dest = File(ChunkData)
    /\ \E c \in Calls : pc[c] = "write" /\ tmp[c] = File(<<>>)

C7_NoTempRemains ==
    \A c \in Calls : pc[c] = "done" => ~tmp[c].exists

\* C8: a call makes the first rename and at most MaxRetries further ones; inside
\* the loop each further rename uses up one of retriesLeft; and a call that
\* returns the rename error has made exactly 1 + MaxRetries renames.
C8_BoundedRetries ==
    \A c \in Calls :
        /\ renames[c] <= 1 + MaxRetries
        /\ retriesLeft[c] \in 0..MaxRetries
        /\ InLoop(c) => renames[c] + retriesLeft[c] = 1 + MaxRetries
        /\ (pc[c] = "done" /\ ret[c] = "renameErr")
               => (renames[c] = 1 + MaxRetries /\ retriesLeft[c] = 0)

\* C8 witness: a call returned the rename error after all its renames failed
\* while the destination never existed.
C8_Witness ==
    \E c \in Calls :
        /\ pc[c] = "done"
        /\ ret[c] = "renameErr"
        /\ renames[c] = 1 + MaxRetries
        /\ dest0 = NoFile
        /\ ~dest.exists
        /\ \A d \in Calls \ {c} : renames[d] = 0

\* C9, the validation verdict: the file at the destination is taken as valid
\* only if its bytes have the digest of the chunk, whatever SkipVerify is, and a
\* file with other bytes is taken as invalid.
C9_Verdict(c) ==
    /\ (pc[c] = "validate" /\ pc'[c] = "removeTmp") => dest = File(ChunkData)
    /\ (pc[c] = "validate" /\ pc'[c] # "validate" /\ dest.exists
            /\ dest.data # ChunkData) => pc'[c] = "removeDest"

\* C9 as stated: a valid destination makes the call discard its temp file and
\* return success; an invalid one is removed and the rename retried.
C9_ValidateExisting ==
    [][\A c \in Calls :
          /\ C9_Verdict(c)
          /\ (pc[c] = "removeTmp" /\ pc'[c] # "removeTmp")
                 => (~tmp'[c].exists /\ dest' = dest
                       /\ pc'[c] = "done" /\ ret'[c] = "nil")
          /\ (pc[c] = "removeDest" /\ pc'[c] # "removeDest")
                 => (~dest'.exists /\ pc'[c] = "retry")]_vars

\* what follows a failed os.Remove, as what follows a rename that failed with
\* no destination: retry while retries are left, else return the rename error
C9_RetryOrGiveUp(c) ==
    IF retriesLeft[c] > 0
    THEN pc'[c] = "retry"
    ELSE pc'[c] = "done" /\ ret'[c] = "renameErr"

\* C9 amended: a valid destination is left unchanged, and the call returns
\* success if it can remove its temp file; an invalid destination is removed if
\* os.Remove succeeds; after an invalid destination or a failed removal of the
\* temp file the rename is retried while retries are left.
C9_ValidateExistingAmended ==
    [][\A c \in Calls :
          /\ C9_Verdict(c)
          /\ (pc[c] = "removeTmp" /\ pc'[c] # "removeTmp")
                 => /\ dest' = dest
                    /\ \/ ~tmp'[c].exists /\ pc'[c] = "done" /\ ret'[c] = "nil"
                       \/ tmp'[c] = tmp[c] /\ C9_RetryOrGiveUp(c)
          /\ (pc[c] = "removeDest" /\ pc'[c] # "removeDest")
                 => /\ dest' = NoFile \/ dest' = dest
                    /\ tmp'[c] = tmp[c]
                    /\ C9_RetryOrGiveUp(c)]_vars

\* C9 witness: with SkipVerify set, one call has found the destination valid and
\* is about to discard its temp file.
C9_Witness ==
    /\ opt.SkipVerify
    /\ \E c \in Calls :
           /\ pc[c] = "removeTmp"
           /\ tmp[c] = File(ChunkData)
           /\ dest = File(ChunkData)

\* C22: a StoreChunk call that is entered while the destination file exists
\* returns nil at once: it creates no temp file, and leaves the destination
\* and the count of renames as they are.
C22_NoWorkWhenStored ==
    [][\A c \in Calls :
          (pc[c] = "start" /\ dest.exists /\ pc'[c] # "start")
              => /\ pc'[c] = "done"
                 /\ ret'[c] = "nil"
                 /\ tmp'[c] = NoFile
                 /\ dest' = dest
                 /\ renames'[c] = 0]_vars

(***************************************************************************)
(* Properties of Prune                                                     *)
(***************************************************************************)

\* the chunks the store holds: the IDs id for which the file (object)
\* nameFromID(id) exists, as HasChunk and GetChunk find them
Chunks(F) == { id \in PruneIDs : nameFromID(opt, id) \in F }

\* C10: after Prune(ctx, ids) returned without error on a store holding the
\* chunk set S, the store holds exactly the chunks of S that are in ids.
C10_PruneKeepsExactlyLive ==
    (prune.pc = "done" /\ prune.ret = "nil")
        => Chunks(files) = Chunks(files0) \cap ids

\* C10 witness: LocalStore.Prune returned nil on a store that held a chunk of
\* the live set and a chunk outside it.
C10_Witness ==
    /\ kind = "local"
    /\ prune.pc = "done"
    /\ prune.ret = "nil"
    /\ Chunks(files0) \cap ids # {}
    /\ Chunks(files0) \ ids # {}
    /\ Chunks(files) # Chunks(files0)

\* C11: a second Prune with the same ids, made right after a Prune that returned
\* nil, and not hit by a failure of the walk (listing) or a cancellation, returns
\* nil and leaves the store as the first call left it.
C11_PruneIdempotent ==
    (runs = 1 /\ prune.pc = "done"
        /\ prune.ret \notin {"walkErr", "iterErr", "Interrupted"})
        => (prune.ret = "nil" /\ files = files1)

\* the walk or the listing has an entry left to visit
EntriesLeft ==
    Ahead(IF kind = "local" THEN files \cup {BaseDir} ELSE files, prune.last) # {}

\* C12: once ctx is cancelled while Prune has entries left to visit, Prune
\* removes nothing more and its next step returns Interrupted.
C12_CancelInterrupts ==
    [][(cancelled /\ prune.pc = "walk" /\ EntriesLeft)
          => (files' = files /\ prune'.pc = "done"
                /\ prune'.ret = "Interrupted")]_vars

\* C13: Prune returns no Missing error: unless the walk (listing) fails, ctx is
\* cancelled or a removal fails for another reason than Missing, Prune returns
\* nil and no chunk outside ids is left in the store.
C13_ContinuesPastMissing ==
    (prune.pc = "done"
        /\ prune.ret \notin {"walkErr", "iterErr", "Interrupted",
                              "removeErr", "deleteErr"})
        => (prune.ret = "nil" /\ Chunks(files) \subseteq ids)

\* C29: Prune never removes a live chunk. In every state of LocalStore.Prune
\* and GCSStore.Prune, whether the call is running, returned nil, was cancelled
\* or returned an error midway, every chunk file of an ID in ids that the store
\* held is still there, and every file that is gone is the file nameFromID(id)
\* of an ID that is not in ids.
C29_LiveChunksStay ==
    /\ \A id \in ids : nameFromID(opt, id) \in files0 => nameFromID(opt, id) \in files
    /\ \A n \in files0 \ files :
           /\ n.id \in PruneIDs \ ids
           /\ n = nameFromID(opt, n.id)

\* C29 witness: GCSStore.Prune was cancelled midway, with an object left to
\* list, after it deleted the object of a chunk outside ids; the object of a
\* chunk in ids that it listed before is there.
C29_Witness ==
    /\ kind = "gcs"
    /\ prune.pc = "done"
    /\ prune.ret = "Interrupted"
    /\ \E a, b \in PruneIDs :
           /\ a \in ids /\ b \notin ids
           /\ a < b
           /\ nameFromID(opt, a) \in files
           /\ nameFromID(opt, b) \in files0 \ files

\* the extension of the chunk files of the store
OwnExt == IF opt.Uncompressed THEN UncompressedChunkExt ELSE CompressedChunkExt

C14_VerifyRepairs ==
    (verify.pc = "done" /\ verify.repair /\ verify.ret = "nil")
        => /\ OwnChunkFiles(files, opt) \cap corrupt = {}
           /\ \A n \in OwnChunkFiles(files0, opt) \cap corrupt :
                  \E m \in log : m.id = n.id
           /\ \A n \in files0 \ corrupt : n \in files

\* the walk has fed chunk ID id to a worker
Fed(id) ==
    /\ nameFromID(opt, id) \in files0
    /\ WalkKey(nameFromID(opt, id)) <= verify.last

\* the workers that hold id and have not checked it yet
Holding(id) == { w \in Workers : workers[w].pc = "check" /\ workers[w].id = id }

\* C15: every chunk ID the walk has fed is held by exactly one worker or has
\* been checked exactly once, and none that was not fed is held or checked; when
\* Verify has returned, no worker holds an ID, the return value is what the walk
\* returned (nil, Interrupted after a cancellation, or the error of the walk)
\* whatever the workers found, and after a nil return every chunk file of the
\* store has been checked exactly once.
C15_VerifyContinues ==
    /\ \A id \in PruneIDs :
           Cardinality(Holding(id)) + checked[id] = IF Fed(id) THEN 1 ELSE 0
    /\ verify.pc = "done" =>
           /\ \A id \in PruneIDs : Holding(id) = {}
           /\ verify.ret \in {"nil", "Interrupted", "walkErr"}
           /\ verify.ret = "Interrupted" => cancelled
           /\ verify.ret = "nil" =>
                  \A n \in OwnChunkFiles(files0, opt) : checked[n.id] = 1

\* C28: Verify never deadlocks, for every worker count, n = 0 included: each
\* send of a chunk ID by the walk is received in the end and Verify returns;
\* ids is closed once, after the walk ended, so the walk never goes on behind
\* the close; and Verify has returned only when every worker has exited.
C28_VerifyNeverDeadlocks ==
    /\ (verify.pc = "send") ~> (verify.pc = "walk")
    /\ <>(verify.pc = "done")
    /\ [][verify.pc \in {"wait", "done"} => verify'.pc \in {"wait", "done"}]_vars
    /\ [](verify.pc = "done" => \A w \in Workers : workers[w].pc = "exit")

\* C15 witness: Verify with repair set returned nil after its workers checked
\* two chunks, one invalid chunk whose removal failed and one chunk that could
\* not be read.
C15_Witness ==
    /\ verify.pc = "done"
    /\ verify.ret = "nil"
    /\ verify.repair
    /\ \E a, b \in PruneIDs :
           /\ a # b
           /\ checked[a] = 1 /\ checked[b] = 1
           /\ nameFromID(opt, a) \in corrupt
           /\ nameFromID(opt, a) \in files
           /\ [id |-> a, msg |-> "ChunkInvalid:removeErr"] \in log
           /\ nameFromID(opt, b) \notin corrupt
           /\ nameFromID(opt, b) \notin files
           /\ [id |-> b, msg |-> "ChunkInvalid: removed"] \in log

(***************************************************************************)
(* Properties of GetChunk                                                  *)
(***************************************************************************)

\* the type assertion err.(ChunkMissing) that tells Missing from other errors
IsChunkMissing(err) == err = "ChunkMissing"

\* C16: LocalStore.GetChunk returns ChunkMissing exactly when the file does not
\* exist, and returns an error whenever a file that exists could not be read.
C16_GetChunkErrors ==
    (got.called /\ kind = "local")
        => /\ IsChunkMissing(got.err) <=> ~dest.exists
           /\ (dest.exists /\ ~got.readOK) => got.err # "nil"

\* C17: GCSStore.GetChunk returns ChunkMissing when the bucket could be asked
\* and holds no object for the ID, and returns an error that is not ChunkMissing
\* when the backend or the read of the object failed.
C17_GCSMissing ==
    (got.called /\ kind = "gcs")
        => /\ (got.readerOK /\ ~dest.exists) => IsChunkMissing(got.err)
           /\ (~got.readerOK \/ (dest.exists /\ ~got.readOK))
                  => (got.err # "nil" /\ ~IsChunkMissing(got.err))

(***************************************************************************)
(* Properties of Config.GetS3CredentialsFor                                *)
(***************************************************************************)

\* C19: each of S3_ACCESS_KEY, S3_SECRET_KEY and S3_REGION that is set is the
\* access key, the secret key and the region that GetS3CredentialsFor returns,
\* whatever the config holds.
C19_EnvOverrides ==
    creds.pc = "done"
        => /\ env.S3_ACCESS_KEY # "" => creds.creds.AccessKey = env.S3_ACCESS_KEY
           /\ env.S3_SECRET_KEY # "" => creds.creds.SecretKey = env.S3_SECRET_KEY
           /\ env.S3_REGION # "" => creds.region = env.S3_REGION

(***************************************************************************)
(* Properties of Tar                                                       *)
(***************************************************************************)

\* node x is the directory d or lies below it
RECURSIVE IsUnder(_, _)
IsUnder(x, d) == x = d \/ (x # 0 /\ IsUnder(tree[x].parent, d))

\* the positions of the elements of the given type encoded for node x
Positions(type, x) == { i \in 1..Len(stream) : stream[i] = Element(type, x) }

\* C20: every Filename element in the stream is directly followed by the Entry
\* element of the same child, unless it is the last element and the call for
\* the child is still to be made or Tar failed; and when Tar has returned nil,
\* the encoding of every encoded directory holds exactly one Goodbye element,
\* which is the last element encoded for the directory and the nodes below it.
C20_FilenameThenEntry ==
    /\ \A i \in 1..Len(stream) :
           stream[i].type = "Filename" =>
               IF i < Len(stream)
               THEN stream[i + 1] = Element("Entry", stream[i].node)
               ELSE tar.pc = "call" \/ tar.ret \notin {"none", "nil"}
    /\ (tar.pc = "done" /\ tar.ret = "nil") =>
           \A d \in Dirs(tree) :
               Positions("Entry", d) # {} =>
                   /\ Cardinality(Positions("Goodbye", d)) = 1
                   /\ \A g \in Positions("Goodbye", d) :
                          \A i \in 1..Len(stream) :
                              IsUnder(stream[i].node, d) => i <= g

\* the number of bytes of an encoded element, and of the elements before
\* element i of the stream
ElementSize(e) ==
    IF e.type = "Entry" THEN EntrySize
    ELSE IF e.type = "Filename" THEN FilenameSize(e.node)
    ELSE IF e.type = "Payload" THEN PayloadSize(e.node)
    ELSE goodbye[e.node].Size
RECURSIVE OffsetOf(_)
OffsetOf(i) == IF i = 1 THEN 0 ELSE OffsetOf(i - 1) + ElementSize(stream[i - 1])

\* the position of the only element of the given type encoded for node x
PositionOf(type, x) == CHOOSE i \in Positions(type, x) : TRUE

\* the number of bytes of the encoding of node x: its elements and those of
\* the nodes below it
RECURSIVE BytesUnder(_, _)
BytesUnder(x, i) ==
    IF i > Len(stream) THEN 0
    ELSE (IF IsUnder(stream[i].node, x) /\ stream[i] # Element("Filename", x)
          THEN ElementSize(stream[i]) ELSE 0) + BytesUnder(x, i + 1)

\* the children of directory d that were encoded
EncodedChildren(d) ==
    { c \in 1..Len(tree) : tree[c].parent = d /\ Positions("Entry", c) # {} }

\* C21: the Goodbye of every encoded directory holds one item per encoded child
\* and a tail marker; its header Size is 16 + 24 * (children + 1) and is the Size
\* of the tail marker; the item of a child has as Offset the bytes from the
\* start of the child's Filename to the start of the Goodbye and as Size the
\* bytes of the Filename and the child's encoding; the Offset of the tail marker
\* is the bytes from the start of the directory's Entry to the start of the
\* Goodbye.
C21_GoodbyeItems ==
    \A d \in DOMAIN goodbye :
        LET G    == goodbye[d]
            tail == G.Items[Len(G.Items)]
            g    == PositionOf("Goodbye", d)
            C    == EncodedChildren(d)
        IN  /\ Len(G.Items) = Cardinality(C) + 1
            /\ G.Size = 16 + 24 * (Cardinality(C) + 1)
            /\ G.Size = tail.Size
            /\ tail.Hash = CaFormatGoodbyeTailMarker
            /\ tail.Offset = OffsetOf(g) - OffsetOf(PositionOf("Entry", d))
            /\ \A c \in C :
                   \E i \in 1..(Len(G.Items) - 1) :
                       /\ G.Items[i].Hash = SipHash(c)
                       /\ G.Items[i].Offset =
                              OffsetOf(g) - OffsetOf(PositionOf("Filename", c))
                       /\ G.Items[i].Size = FilenameSize(c) + BytesUnder(c, 1)

(***************************************************************************)
(* Properties of MultiStoreWithCache                                       *)
(***************************************************************************)

\* C23: when MultiStoreWithCache returned without error, the result is the
\* router alone if the cache location is empty; else it is the cache over the
\* router and the store of the cache location, that store having UpdateTimes
\* set if it is a LocalStore and being as WritableStore returned it otherwise.
C23_CacheUpdatesTimes ==
    (msc.pc = "done" /\ msc.ret.err = "nil")
        => IF msc.cacheLocation = ""
           THEN msc.ret.store.type = "StoreRouter"
           ELSE /\ msc.ret.store.type = "Cache"
                /\ msc.ret.store.s.type = "StoreRouter"
                /\ IF msc.cache.type = "LocalStore"
                   THEN msc.ret.store.l = [msc.cache EXCEPT !.UpdateTimes = TRUE]
                   ELSE msc.ret.store.l = msc.cache

(***************************************************************************)
(* Properties of TarWriteFS.CreateDevice                                   *)
(***************************************************************************)

\* the file type bits of a mode (mode & S_IFMT); they are S_IFCHR = 0x2000 for
\* a character device and S_IFBLK = 0x6000 for a block device
FileType(mode) == (mode \div 4096) * 4096
IsCharDevice(mode) == FileType(mode) = 8192
IsBlockDevice(mode) == FileType(mode) = 24576

\* C25: the header CreateDevice wrote has the type TypeChar for a node whose
\* mode is a character device and TypeBlock for one whose mode is a block
\* device, and carries the major and minor number of the node.
C25_DeviceHeader ==
    (device.pc = "done" /\ device.ret = "nil")
        => /\ IsCharDevice(device.n.Mode) => device.hdr.Typeflag = "TypeChar"
           /\ IsBlockDevice(device.n.Mode) => device.hdr.Typeflag = "TypeBlock"
           /\ device.hdr.Devmajor = device.n.Major
           /\ device.hdr.Devminor = device.n.Minor

(***************************************************************************)
(* Properties of runPrune                                                  *)
(***************************************************************************)

\* the chunk IDs of all the index files read
RECURSIVE UnionOf(_)
UnionOf(seq) == IF seq = <<>> THEN {} ELSE seq[1] \cup UnionOf(Tail(seq))

\* C26: Prune is called at most once, and only after the options validated, a
\* store that supports pruning was opened, every listed index was read, and
\* --yes was set or the user answered y or Y; the ids it is called with are the
\* union of the chunk IDs of all the indexes; and as long as Prune was not
\* called no file of the store is removed, whatever runPrune returns.
C26_PruneBehindGates ==
    /\ run.called <= 1
    /\ run.called = 1 =>
           /\ run.gates
           /\ Len(run.indexes) = run.nargs
           /\ run.yes \/ run.answer \in {"y", "Y"}
           /\ ids = UnionOf(run.indexes)
    /\ run.called = 0 => (files = files0 /\ prune = PruneIdle)
    /\ (run.pc = "done" /\ run.called = 1) => run.ret = prune.ret

\* C26 witness: runPrune without --yes read two indexes with different chunks,
\* the user answered Y, and Prune, called with the chunks of both, removed a
\* chunk and returned nil.
C26_Witness ==
    /\ run.pc = "done"
    /\ run.ret = "nil"
    /\ ~run.yes
    /\ run.answer = "Y"
    /\ Len(run.indexes) = 2
    /\ run.indexes[1] # run.indexes[2]
    /\ ids = run.indexes[1] \cup run.indexes[2]
    /\ files # files0

====
